---------------------------- MODULE HooksProofs -----------------------------
(***************************************************************************)
(* Proofs about what InjX86 and Mapping64 put into a program, each theorem *)
(* about one module.  The address that a hook sends arrives, for every     *)
(* address and port; a hooked function runs as it did, wherever it, its    *)
(* trampoline and the hook are in memory; a call of connect that no other  *)
(* overlaps finds in the globals what it wrote itself (AloneInv), and two  *)
(* threads are in that hook at once only in calls that are marked as       *)
(* shared (ApartInv).                                                      *)
(***************************************************************************)
EXTENDS MCHooks, SequenceTheorems, TLAPS

LEMMA ModRange ==
    ASSUME NEW w \in Nat \ {0}, NEW x \in Int
    PROVE  x % w \in 0..w - 1 /\ x \div w \in Int /\ x = w * (x \div w) + (x % w)
OBVIOUS

-----------------------------------------------------------------------------
(* The address.                                                            *)

\* A word of two bytes holds any port.
LEMMA PortBytes ==
    ASSUME NEW n \in Number
    PROVE  UShort(<<n % 256, n \div 256>>) = n
<1>1. PICK l \in Int, h \in Int : l = n % 256 /\ h = n \div 256 /\ n = l + 256 * h
  <2>1. UShortMax \in Int
        BY DEF UShortMax
  <2>2. PICK w \in Nat \ {0} : w = 256
        OBVIOUS
  <2>3. n \in Int
        BY <2>1 DEF Number
  <2>4. n % w \in Int /\ n \div w \in Int /\ n = w * (n \div w) + (n % w)
        BY <2>3, ModRange
  <2> QED BY <2>2, <2>4
<1> QED BY <1>1 DEF UShort

LEMMA Swap2 ==
    ASSUME NEW a, NEW b
    PROVE  SwapBytes(<<a, b>>) = <<b, a>>
  BY DEF SwapBytes

LEMMA Swap4 ==
    ASSUME NEW a, NEW b, NEW c, NEW d
    PROVE  SwapBytes(<<a, b, c, d>>) = <<d, c, b, a>>
  BY DEF SwapBytes

IP(a, b, c, d, p) == [address |-> <<a, b, c, d>>, port |-> p]

LEMMA Tuple4 ==
    ASSUME NEW S, NEW x \in S \X S \X S \X S
    PROVE  \E a, b, c, d \in S : x = <<a, b, c, d>>
  OBVIOUS

\* An endpoint as the bytes it is made of.
LEMMA EndPointBytes ==
    ASSUME NEW e \in EndPoint
    PROVE  \E a, b, c, d \in Byte, p \in Number : e = IP(a, b, c, d, p)
<1>1. PICK x \in Addresses, p \in Ports : e = [address |-> x, port |-> p]
  BY DEF EndPoint
<1>2. x \in Byte \X Byte \X Byte \X Byte /\ p \in Number
  BY AddressAssumption
<1>3. PICK a, b, c, d \in Byte : x = <<a, b, c, d>>
  BY <1>2, Tuple4
<1>4. e = IP(a, b, c, d, p)
  BY <1>1, <1>3 DEF IP
<1>5. p \in Number
  BY <1>2
<1> QED
  BY <1>4, <1>5

\* What is on the wire, byte by byte.
LEMMA FrameBytes ==
    ASSUME NEW a, NEW b, NEW c, NEW d, NEW p
    PROVE  /\ Frame(IP(a, b, c, d, p), 6) = <<p \div 256, p % 256, d, c, b, a>>
           /\ Frame(IP(a, b, c, d, p), 17) = <<5, 57, p \div 256, p % 256, d, c, b, a>>
<1>1. sin_port(IP(a, b, c, d, p)) = <<p \div 256, p % 256>>
  BY Swap2 DEF sin_port, ToUShort, IP
<1>2. SwapBytes(s_addr(IP(a, b, c, d, p))) = <<d, c, b, a>>
  BY Swap4 DEF s_addr, IP
<1>3. SwapBytes(ToUShort(1337)) = <<5, 57>>
  <2>1. 1337 % 256 = 57 /\ 1337 \div 256 = 5
    OBVIOUS
  <2> QED BY <2>1, Swap2 DEF ToUShort
<1> QED
  BY <1>1, <1>2, <1>3 DEF Frame, Layout

\* The readers undo what SendPatch does.
LEMMA RelayEndPointOfFrame ==
    ASSUME NEW a, NEW b, NEW c, NEW d, NEW p \in Number
    PROVE  GetRelayEndPoint(<<p \div 256, p % 256, d, c, b, a>>) = IP(a, b, c, d, p)
<1> DEFINE f == <<p \div 256, p % 256, d, c, b, a>>
<1>1. ToUInt16(f, 0) = <<p \div 256, p % 256>> /\ ToUInt32(f, 2) = <<d, c, b, a>>
  BY DEF ToUInt16, ToUInt32
<1> HIDE DEF f
<1>2. SwapBytes(ToUInt16(f, 0)) = <<p % 256, p \div 256>>
  BY <1>1, Swap2
<1>3. SwapBytes(ToUInt32(f, 2)) = <<a, b, c, d>>
  BY <1>1, Swap4
<1>4. UShort(SwapBytes(ToUInt16(f, 0))) = p
  BY <1>2, PortBytes
<1>5. GetRelayEndPoint(f) = IP(a, b, c, d, p)
  BY <1>3, <1>4 DEF GetRelayEndPoint, IP
<1> QED
  BY <1>5 DEF f

\* The first bytes of a datagram, as many as arrive.
LEMMA OpcodeOfDatagram ==
    ASSUME NEW w, Len(w) >= 2, w[1] = 5, w[2] = 57
    PROVE  IsPacketAddress(w)
<1>1. ToUInt16(w, 0) = <<5, 57>>
  BY DEF ToUInt16
<1>2. SwapBytes(ToUInt16(w, 0)) = <<57, 5>>
  BY <1>1, Swap2
<1> QED
  BY <1>2 DEF IsPacketAddress, UShort

LEMMA PortOfDatagram ==
    ASSUME NEW p \in Number, NEW w, w[3] = p \div 256, w[4] = p % 256
    PROVE  UShort(SwapBytes(ToUInt16(w, 2))) = p
<1>1. ToUInt16(w, 2) = <<p \div 256, p % 256>>
  BY DEF ToUInt16
<1>2. SwapBytes(ToUInt16(w, 2)) = <<p % 256, p \div 256>>
  BY <1>1, Swap2
<1> QED
  BY <1>2, PortBytes

LEMMA AddressOfDatagram ==
    ASSUME NEW a, NEW b, NEW c, NEW d, NEW w, Len(w) >= 8,
           w[5] = d, w[6] = c, w[7] = b, w[8] = a
    PROVE  GetDestAddress(w) = <<a, b, c, d>>
<1>1. ToUInt32(w, 4) = <<d, c, b, a>>
  BY DEF ToUInt32
<1> QED
  BY <1>1, Swap4 DEF GetDestAddress

-----------------------------------------------------------------------------
\* What is read of a buffer.
Read(w) ==
    IF protocol = 6 THEN <<"link", GetRelayEndPoint(w)>>
    ELSE IF ~IsPacketAddress(w) THEN <<"data">>
    ELSE IF Len(w) < 4 THEN <<"exception">>
    ELSE <<"link", GetEndPoint(w)>>

\* On the wire is a part of the frame, all of it for TCP.
FrameInv ==
    /\ want \in EndPoint
    /\ protocol \in {6, 17}
    /\ wire # << >> =>
          \E n \in 1..Len(Frame(want, protocol)) :
              /\ protocol = 6 => n = Len(Frame(want, protocol))
              /\ wire = SubSeq(Frame(want, protocol), 1, n)
    /\ outcome # <<"none">> => wire # << >> /\ outcome = Read(wire)

LEMMA ReadHeaderCorrect ==
    ASSUME FrameInv, outcome # <<"none">>, protocol = 6
    PROVE  Whole /\ outcome = <<"link", want>>
<1>1. wire # << >> /\ outcome = <<"link", GetRelayEndPoint(wire)>> /\ want \in EndPoint
  BY DEF FrameInv, Read
<1>2. PICK a, b, c, d \in Byte, p \in Number : want = IP(a, b, c, d, p)
  BY <1>1, EndPointBytes
<1> DEFINE f == <<p \div 256, p % 256, d, c, b, a>>
<1>3. Frame(want, protocol) = f
  BY <1>2, FrameBytes
<1>4. f \in Seq({p \div 256, p % 256, a, b, c, d}) /\ Len(f) = 6
  OBVIOUS
<1>5. SubSeq(f, 1, 6) = f
  <2> HIDE DEF f
  <2> QED BY <1>4, SubSeqFull
<1>6. wire = f
  <2> HIDE DEF f
  <2> QED BY <1>1, <1>3, <1>4, <1>5 DEF FrameInv
<1>7. GetRelayEndPoint(wire) = want
  BY <1>2, <1>6, RelayEndPointOfFrame
<1> QED
  BY <1>1, <1>4, <1>6, <1>7 DEF Whole

LEMMA ReadDatagramCorrect ==
    ASSUME FrameInv, outcome # <<"none">>, protocol = 17
    PROVE  AddressArrives
<1>1. wire # << >> /\ outcome = Read(wire) /\ want \in EndPoint
  BY DEF FrameInv
<1>2. PICK a, b, c, d \in Byte, p \in Number : want = IP(a, b, c, d, p)
  BY <1>1, EndPointBytes
<1> DEFINE f == <<5, 57, p \div 256, p % 256, d, c, b, a>>
<1>3. Frame(want, protocol) = f
  BY <1>2, FrameBytes
<1>4. f \in Seq(Nat \cup {p \div 256, p % 256, a, b, c, d}) /\ Len(f) = 8
  OBVIOUS
<1>5. PICK n \in 1..8 : wire = SubSeq(f, 1, n)
  <2> HIDE DEF f
  <2> QED BY <1>1, <1>3, <1>4 DEF FrameInv
<1>6. Len(wire) = n /\ \A i \in 1..n : wire[i] = f[i]
  <2> HIDE DEF f
  <2> QED BY <1>4, <1>5
<1>7. n >= 2 => IsPacketAddress(wire)
  BY <1>6, OpcodeOfDatagram
<1>8. n < 2 => ~IsPacketAddress(wire)
  BY <1>6 DEF IsPacketAddress
<1>9. n >= 4 => GetEndPoint(wire) = [address |-> GetDestAddress(wire), port |-> p]
  <2> SUFFICES ASSUME n >= 4
               PROVE  GetEndPoint(wire) = [address |-> GetDestAddress(wire), port |-> p]
    OBVIOUS
  <2>1. wire[3] = p \div 256 /\ wire[4] = p % 256
    BY <1>6
  <2>2. UShort(SwapBytes(ToUInt16(wire, 2))) = p
    BY <2>1, PortOfDatagram
  <2> QED BY <2>2 DEF GetEndPoint
<1>10. n = 8 => GetDestAddress(wire) = <<a, b, c, d>>
  <2> SUFFICES ASSUME n = 8 PROVE GetDestAddress(wire) = <<a, b, c, d>>
    OBVIOUS
  <2>1. Len(wire) >= 8 /\ wire[5] = d /\ wire[6] = c /\ wire[7] = b /\ wire[8] = a
    BY <1>6
  <2> HIDE DEF f
  <2> QED BY <2>1, AddressOfDatagram
<1>11. n < 8 => GetDestAddress(wire) = <<0, 0, 0, 0>>
  BY <1>6 DEF GetDestAddress
<1>12. want.port = p
  BY <1>2 DEF IP
<1> HIDE DEF f
<1>13. Read(wire) = IF n < 2 THEN <<"data">> ELSE IF n < 4 THEN <<"exception">>
                    ELSE <<"link", GetEndPoint(wire)>>
  BY <1>6, <1>7, <1>8 DEF Read
<1>14. CASE n = 8
  <2>1. GetEndPoint(wire) = want
    BY <1>2, <1>9, <1>10, <1>14 DEF IP
  <2> QED
    BY <2>1, <1>1, <1>6, <1>13, <1>14 DEF AddressArrives, Truncated, Whole
<1>15. CASE n \in 4..7
  <2>1. GetEndPoint(wire) = [address |-> <<0, 0, 0, 0>>, port |-> want.port]
    BY <1>9, <1>11, <1>12, <1>15
  <2> QED
    BY <2>1, <1>1, <1>6, <1>13, <1>15 DEF AddressArrives, Truncated, Whole
<1>16. CASE n \in 1..3
  BY <1>1, <1>6, <1>13, <1>16 DEF AddressArrives, Truncated, Whole
<1> QED
  BY <1>14, <1>15, <1>16

LEMMA ReadCorrect == FrameInv => AddressArrives
<1> SUFFICES ASSUME FrameInv, outcome # <<"none">>
             PROVE  AddressArrives
  BY DEF AddressArrives, Whole
<1>1. protocol = 6 \/ protocol = 17
  BY DEF FrameInv
<1> QED
  BY <1>1, ReadHeaderCorrect, ReadDatagramCorrect DEF AddressArrives, Whole

LEMMA NextFrameInv == FrameInv /\ [FrameNext]_frameVars => FrameInv'
<1> SUFFICES ASSUME FrameInv, [FrameNext]_frameVars PROVE FrameInv'
  OBVIOUS
<1>1. CASE SendPatch
  <2>1. /\ want' = want /\ protocol' = protocol /\ outcome' = <<"none">>
        /\ \E n \in 1..Len(Frame(want, protocol)) :
              /\ protocol = 6 => n = Len(Frame(want, protocol))
              /\ wire' = SubSeq(Frame(want, protocol), 1, n)
    BY <1>1 DEF SendPatch
  <2> QED BY <2>1 DEF FrameInv
<1>2. CASE ReadHeader
  BY <1>2 DEF ReadHeader, FrameInv, Read
<1>3. CASE ReadDatagram
  BY <1>3 DEF ReadDatagram, FrameInv, Read
<1>4. CASE UNCHANGED frameVars
  BY <1>4 DEF frameVars, FrameInv, Read
<1> QED
  BY <1>1, <1>2, <1>3, <1>4 DEF FrameNext

\* The address that a hooked connect sends is the address that the proxy reads, for
\* every IPv4 address and port and for both protocols.
THEOREM AddressCorrect == FrameSpec => []AddressArrives
<1>1. FrameInit => FrameInv
  BY DEF FrameInit, FrameInv
<1> QED
  BY <1>1, NextFrameInv, ReadCorrect, PTL DEF FrameSpec

-----------------------------------------------------------------------------
(* Addresses are numbers modulo Words.                                     *)

LEMMA ProductBound ==
    ASSUME NEW w \in Nat \ {0}, NEW d \in Int, d >= 1
    PROVE  w * d >= w
OBVIOUS

\* The remainder is the only one.
LEMMA ModIs ==
    ASSUME NEW w \in Nat \ {0}, NEW q \in Int, NEW r \in 0..w - 1, NEW x \in Int, x = w * q + r
    PROVE  x % w = r
<1>1. x % w \in 0..w - 1 /\ x \div w \in Int /\ x = w * (x \div w) + (x % w)
      BY ModRange
<1>2. PICK d \in Int : d = q - x \div w
      BY <1>1
<1>3. w * d = (x % w) - r
  <2>1. w * d = w * q - w * (x \div w)
        BY <1>1, <1>2
  <2> QED BY <1>1, <2>1
<1>4. CASE d >= 1
      BY <1>1, <1>3, <1>4, ProductBound
<1>5. CASE d <= -1
  <2>1. w * (-d) >= w
        BY <1>5, ProductBound
  <2>2. w * (-d) = -(w * d)
        OBVIOUS
  <2> QED BY <1>1, <1>3, <2>1, <2>2
<1>6. CASE d = 0
  <2>1. w * d = 0
        BY <1>6
  <2> QED BY <1>1, <1>3, <2>1
<1> QED BY <1>4, <1>5, <1>6

LEMMA ModSmall ==
    ASSUME NEW w \in Nat \ {0}, NEW x \in Int
    PROVE
    /\ x \in 0..w - 1 => x % w = x
    /\ x \in w..2 * w - 1 => x % w = x - w
    /\ x \in -w..-1 => x % w = x + w
<1>1. CASE x \in 0..w - 1
      BY <1>1, x = w * 0 + x, ModIs
<1>2. CASE x \in w..2 * w - 1
  <2>1. x - w \in 0..w - 1 /\ x = w * 1 + (x - w)
        BY <1>2
  <2>2. x % w = x - w
        BY <2>1, ModIs
  <2> QED BY <1>2, <2>2
<1>3. CASE x \in -w..-1
  <2>1. x + w \in 0..w - 1 /\ x = w * (-1) + (x + w)
        BY <1>3
  <2>2. x % w = x + w
        BY <2>1, ModIs
  <2> QED BY <1>3, <2>2
<1> QED BY <1>1, <1>2, <1>3

LEMMA ModAdd ==
    ASSUME NEW w \in Nat \ {0}, NEW x \in Int, NEW y \in Int
    PROVE  ((x % w) + y) % w = (x + y) % w
<1>1. PICK r \in 0..w - 1, p \in Int : x % w = r /\ x = w * p + r
      BY ModRange
<1>2. PICK z \in Int : z = r + y
      OBVIOUS
<1>3. PICK s \in 0..w - 1, q \in Int : z % w = s /\ z = w * q + s
      BY ModRange
<1>4. PICK u \in Int : u = x + y
      OBVIOUS
<1>5. u = w * (p + q) + s
  <2>1. w * (p + q) = w * p + w * q
        OBVIOUS
  <2> QED BY <1>1, <1>2, <1>3, <1>4, <2>1
<1>6. p + q \in Int
      OBVIOUS
<1>7. u % w = s
      BY <1>5, <1>6, ModIs
<1> QED BY <1>1, <1>2, <1>3, <1>4, <1>7

LEMMA ModBack ==
    ASSUME NEW w \in Nat \ {0}, NEW f \in 0..w - 1, NEW k \in 0..w - 1
    PROVE  (((f + k) % w) - f) % w = k
<1>1. PICK x \in Int, y \in Int : x = f + k /\ y = -f
      OBVIOUS
<1>2. ((x % w) + y) % w = (x + y) % w
      BY ModAdd
<1>3. x + y = k /\ x + y \in Int
      BY <1>1
<1>4. (x + y) % w = k
      BY <1>3, ModSmall
<1>5. x % w \in Int
      BY ModRange
<1>6. (x % w) + y = (x % w) - f
      BY <1>1, <1>5
<1> QED BY <1>1, <1>2, <1>4, <1>6

LEMMA ModShift ==
    ASSUME NEW w \in Nat \ {0}, NEW x \in Int, NEW q \in Int
    PROVE  (x + w * q) % w = x % w
<1>1. PICK r \in 0..w - 1, p \in Int : x % w = r /\ x = w * p + r
      BY ModRange
<1>2. PICK y \in Int : y = x + w * q
      OBVIOUS
<1>3. y = w * (p + q) + r
  <2>1. w * (p + q) = w * p + w * q
        OBVIOUS
  <2> QED BY <1>1, <1>2, <2>1
<1>4. p + q \in Int
      OBVIOUS
<1>5. y % w = r
      BY <1>3, <1>4, ModIs
<1> QED BY <1>1, <1>2, <1>5

LEMMA WordsNat == Patch!Words \in Nat \ {0} /\ Half \in Nat \ {0}
<1>1. Half \in Nat \ {0}
      BY LayoutAssumption
<1>2. Half * Half >= Half
      BY <1>1, ProductBound
<1> QED BY <1>1, <1>2 DEF Patch!Words

-----------------------------------------------------------------------------
(* The function's instructions.                                            *)

LEMMA BoundariesTyped ==
    /\ Boundaries \in Seq(Int) /\ DOMAIN Boundaries = 1..Len(Boundaries)
    /\ \A n \in 1..Len(Boundaries) : Boundaries[n] \in 0..Size - 1
<1>1. Boundaries \in Seq(0..Size - 1)
      BY LayoutAssumption
<1>2. 0..Size - 1 \subseteq Int
      BY LayoutAssumption, WordsNat
<1>3. Boundaries \in Seq(Int)
      BY <1>1, <1>2, SeqMonotonic
<1>4. \A n \in 1..Len(Boundaries) : Boundaries[n] \in 0..Size - 1
      BY <1>1, ElementOfSeq
<1> QED BY <1>3, <1>4

\* How many instructions the function has.
Last == Len(Boundaries)

\* What is counted on in arithmetic.
LEMMA BoundariesAscend ==
    /\ Last \in Nat \ {0} /\ Size \in Nat \ {0} /\ Size <= Patch!Words
    /\ Boundaries[1] = 0
    /\ \A n \in 1..Last : Boundaries[n] \in 0..Size - 1
    /\ \A i, j \in 1..Last : i < j => Boundaries[i] < Boundaries[j]
    /\ Patch!Starts = {Boundaries[n] : n \in 1..Last}
<1>1. Last \in Nat \ {0}
  <2>1. Boundaries \in Seq(Int) /\ Boundaries # << >>
        BY BoundariesTyped, LayoutAssumption
  <2> QED BY <2>1, EmptySeq DEF Last
<1>2. Size \in Nat \ {0} /\ Size <= Patch!Words
      BY LayoutAssumption, WordsNat
<1>3. Boundaries[1] = 0 /\ \A i, j \in 1..Last : i < j => Boundaries[i] < Boundaries[j]
      BY LayoutAssumption DEF Last
<1>4. \A n \in 1..Last : Boundaries[n] \in 0..Size - 1
      BY BoundariesTyped DEF Last
<1>5. Patch!Starts = {Boundaries[n] : n \in 1..Last}
      BY BoundariesTyped DEF Patch!Starts, Patch!ToSet, Last
<1> QED BY <1>1, <1>2, <1>3, <1>4, <1>5

\* Where instruction n ends.
EndOf(n) == IF n = Last THEN Size ELSE Boundaries[n + 1]

LEMMA EndIs ==
    ASSUME NEW n \in 1..Last
    PROVE  /\ Patch!End(Boundaries[n]) = EndOf(n)
           /\ EndOf(n) \in Boundaries[n] + 1 .. Size
           /\ EndOf(n) = Size <=> n = Last
<1> DEFINE k == Boundaries[n]
           Is(e) == e > k /\ \A m \in Patch!Starts : m > k => e <= m
<1>1. Patch!End(k) = CHOOSE e \in Patch!Starts \cup {Size} : Is(e)
      BY DEF Patch!End
<1>2. EndOf(n) \in k + 1 .. Size /\ (EndOf(n) = Size <=> n = Last)
  <2>1. k \in 0..Size - 1 /\ Size \in Nat
        BY BoundariesAscend
  <2>2. CASE n = Last
    <3>1. EndOf(n) = Size
          BY <2>2 DEF EndOf
    <3> QED BY <2>1, <2>2, <3>1
  <2>3. CASE n # Last
    <3>1. n + 1 \in 1..Last /\ n < n + 1
          BY <2>3, BoundariesAscend
    <3>2. EndOf(n) = Boundaries[n + 1] /\ k < Boundaries[n + 1] /\ Boundaries[n + 1] \in 0..Size - 1
          BY <2>3, <3>1, BoundariesAscend DEF EndOf
    <3> QED BY <2>1, <2>3, <3>2
  <2> QED BY <2>2, <2>3
<1>3. \A m \in Patch!Starts : m > k => EndOf(n) <= m
  <2> SUFFICES ASSUME NEW i \in 1..Last, Boundaries[i] > k
               PROVE  EndOf(n) <= Boundaries[i]
      BY BoundariesAscend
  <2>1. Boundaries[i] \in 0..Size - 1 /\ Boundaries[n] \in 0..Size - 1 /\ Size \in Nat
        BY BoundariesAscend
  <2>2. ~(i < n) /\ i # n
        BY <2>1, BoundariesAscend
  <2>3. n + 1 \in 1..Last /\ n # Last /\ (i = n + 1 \/ n + 1 < i)
        BY <2>2, BoundariesAscend
  <2>4. i = n + 1 \/ Boundaries[n + 1] < Boundaries[i]
        BY <2>3, BoundariesAscend
  <2>5. Boundaries[n + 1] \in 0..Size - 1
        BY <2>3, BoundariesAscend
  <2> QED BY <2>1, <2>3, <2>4, <2>5 DEF EndOf
<1>4. EndOf(n) \in Patch!Starts \cup {Size}
  <2>1. n # Last => n + 1 \in 1..Last
        BY BoundariesAscend
  <2> QED BY <2>1, BoundariesAscend DEF EndOf
<1>5. \A m \in Patch!Starts : m \in 0..Size - 1
      BY BoundariesAscend
<1>6. ASSUME NEW e \in Patch!Starts \cup {Size}, Is(e) PROVE e = EndOf(n)
  <2>1. Size \in Nat \ {0} /\ e \in Int /\ k \in 0..Size - 1
        BY <1>5, BoundariesAscend
  <2>2. CASE EndOf(n) \in Patch!Starts
    <3>1. e <= EndOf(n) /\ EndOf(n) \in 0..Size - 1
          BY <1>2, <1>5, <1>6, <2>1, <2>2
    <3>2. e \in Patch!Starts
          BY <2>1, <3>1
    <3>3. EndOf(n) <= e
          BY <1>3, <1>6, <3>2
    <3> QED BY <2>1, <3>1, <3>3
  <2>3. CASE EndOf(n) \notin Patch!Starts
    <3>1. EndOf(n) = Size
          BY <1>4, <2>3
    <3>2. e \notin Patch!Starts
          BY <1>3, <1>5, <1>6, <2>1, <3>1
    <3> QED BY <3>1, <3>2
  <2> QED BY <2>2, <2>3
<1>7. Is(EndOf(n))
  <2>1. EndOf(n) > k
        BY <1>2, BoundariesAscend
  <2> QED BY <1>3, <2>1
<1> HIDE DEF Is
<1>8. Patch!End(k) = EndOf(n)
      BY <1>1, <1>4, <1>6, <1>7
<1> QED BY <1>2, <1>8

\* The instructions before n, as a call has executed them.
Before(n) == SubSeq(Boundaries, 1, n - 1)

LEMMA BeforeGrows ==
    /\ Before(1) = << >>
    /\ \A n \in 1..Last : Before(n) \in Seq(Int) /\ Append(Before(n), Boundaries[n]) = Before(n + 1)
    /\ Before(Last + 1) = Boundaries
<1>1. Before(1) = << >>
      BY BoundariesTyped, BoundariesAscend DEF Before, Last
<1>2. ASSUME NEW n \in 1..Last
      PROVE  Before(n) \in Seq(Int) /\ Append(Before(n), Boundaries[n]) = Before(n + 1)
  <2>1. Before(n) \in Seq(Int) /\ Len(Before(n)) = n - 1 /\ \A i \in 1..n - 1 : Before(n)[i] = Boundaries[i]
        BY BoundariesTyped, BoundariesAscend DEF Before, Last
  <2>2. Before(n + 1) \in Seq(Int) /\ Len(Before(n + 1)) = n /\ \A i \in 1..n : Before(n + 1)[i] = Boundaries[i]
        BY BoundariesTyped, BoundariesAscend DEF Before, Last
  <2> HIDE DEF Before
  <2>3. PICK a : a = Append(Before(n), Boundaries[n])
        OBVIOUS
  <2>4. Boundaries[n] \in Int
        BY BoundariesAscend
  <2>5. a \in Seq(Int) /\ Len(a) = n
        BY <2>1, <2>3, <2>4, AppendProperties
  <2>6. \A i \in 1..n : a[i] = Boundaries[i]
        BY <2>1, <2>3, <2>4, SMTT(20)
  <2>7. a = Before(n + 1)
        BY <2>2, <2>5, <2>6, SeqEqual
  <2> QED BY <2>1, <2>3, <2>7
<1>3. Before(Last + 1) = Boundaries
  <2>1. Last + 1 - 1 = Len(Boundaries)
        BY BoundariesAscend DEF Last
  <2> QED BY <2>1, BoundariesTyped, SubSeqFull DEF Before, Last
<1> QED BY <1>1, <1>2, <1>3

\* The same, behind the hook.
Hooked(s) == <<-1>> \o s

LEMMA HookedGrows ==
    /\ Append(<< >>, -1) = Hooked(<< >>)
    /\ \A s \in Seq(Int), k \in Int : Hooked(s) \in Seq(Int) /\ Append(Hooked(s), k) = Hooked(Append(s, k))
<1>1. Append(<< >>, -1) = Hooked(<< >>)
      BY DEF Hooked
<1>2. ASSUME NEW s \in Seq(Int), NEW k \in Int
      PROVE  Hooked(s) \in Seq(Int) /\ Append(Hooked(s), k) = Hooked(Append(s, k))
  <2>1. <<-1>> \in Seq(Int) /\ Append(s, k) \in Seq(Int) /\ Append(s, k) = s \o <<k>> /\ <<k>> \in Seq(Int)
        BY AppendIsConcat
  <2>2. Hooked(s) \in Seq(Int) /\ Append(Hooked(s), k) = Hooked(s) \o <<k>>
        BY <2>1, ConcatProperties, AppendIsConcat DEF Hooked
  <2>3. (<<-1>> \o s) \o <<k>> = <<-1>> \o (s \o <<k>>)
        BY <2>1, ConcatAssociative
  <2> QED BY <2>1, <2>2, <2>3 DEF Hooked
<1> QED BY <1>1, <1>2


-----------------------------------------------------------------------------
(* Memory while HookFunc is at work.                                       *)

FuncAt(k)  == (at.func + k) % Patch!Words
TrampAt(i) == (at.tramp + i) % Patch!Words
Moved      == Patch!len(at)

Holds(a, b) == a \in DOMAIN memory /\ memory[a] = b

\* The function is as it was.
Pristine ==
    \/ stage \in {"none", "copy"}
    \/ ~at.x64 /\ stage \in {"alloc", "build"}

\* What is written over byte k.
New(k) ==
    IF k < 5 THEN Patch!ProxyCode[k + 1]
    ELSE IF stage \in {"jump", "fill"} THEN Patch!Garbage ELSE Patch!Nop

Content(k) ==
    IF k >= Moved \/ Pristine \/ (stage = "jump" /\ k \in todo) THEN Patch!Original(k) ELSE New(k)

StageInv ==
    /\ at \in Layouts
    /\ stage \in {"none", "alloc", "copy", "build", "jump", "fill", "hooked"}
    /\ stage = "fill" => at.x64

TodoInv ==
    /\ stage = "jump" => todo # {} /\ todo \subseteq 0..Moved - 1
    /\ ~at.x64 /\ stage = "build" => todo = 0..Moved - 1

FunctionInv == \A k \in 0..Size - 1 : Holds(FuncAt(k), Content(k))

SavedInv ==
    stage \in (IF at.x64 THEN {"jump", "fill", "alloc", "build", "hooked"} ELSE {"build", "jump", "hooked"}) =>
        saved = [k \in 1..Moved |-> Patch!Original(k - 1)]

AllocInv ==
    stage \in (IF at.x64 THEN {"build", "hooked"} ELSE {"copy", "build", "jump", "hooked"}) =>
        funcTramp = at.tramp

\* The moved bytes, and the way back.
TrampBuilt ==
    /\ \A i \in 0..Moved - 1 : Holds(TrampAt(i), Patch!Original(i))
    /\ at.x64 => Holds(TrampAt(10), Patch!GoTo(FuncAt(5)))
    /\ ~at.x64 =>
          /\ Holds(TrampAt(5), Patch!Jump)
          /\ \A i \in 1..4 :
                Holds(TrampAt(5 + i), Patch!Distance((at.func - at.tramp - 5) % Patch!Words, i))

TrampInv == stage \in (IF at.x64 THEN {"hooked"} ELSE {"jump", "hooked"}) => TrampBuilt

MemoryInv == StageInv /\ TodoInv /\ FunctionInv /\ SavedInv /\ AllocInv /\ TrampInv

LEMMA LayoutParts ==
    ASSUME at \in Layouts
    PROVE  /\ at.func \in 0..Patch!Words - 1 /\ at.hook \in 0..Patch!Words - 1
           /\ at.tramp \in 0..Patch!Words - 1 /\ at.x64 \in BOOLEAN
           /\ at.x64 => Moved = 10 /\ TrampolineSize(at) = 11
           /\ ~at.x64 => Moved = 5 /\ TrampolineSize(at) = 10
           /\ Moved \in Patch!Starts /\ Moved <= Size - 1 /\ Moved <= Patch!Words - 1
           /\ TrampolineSize(at) <= Patch!Words
<1>1. Apart(at)
      BY LayoutAssumption
<1>2. /\ at.func \in 0..Patch!Words - 1 /\ at.hook \in 0..Patch!Words - 1
      /\ at.tramp \in 0..Patch!Words - 1 /\ at.x64 \in BOOLEAN
      BY <1>1 DEF Apart
<1>3. /\ at.x64 => Moved = 10 /\ TrampolineSize(at) = 11
      /\ ~at.x64 => Moved = 5 /\ TrampolineSize(at) = 10
      BY DEF Moved, Patch!len, TrampolineSize
<1>4. Moved \in Patch!Starts /\ TrampolineSize(at) <= Patch!Words
      BY <1>1 DEF Apart, Moved
<1>5. Moved <= Size - 1 /\ Moved <= Patch!Words - 1
      BY <1>4, BoundariesAscend, WordsNat
<1> QED BY <1>2, <1>3, <1>4, <1>5

LEMMA FuncAddress ==
    ASSUME at \in Layouts, NEW k \in 0..Size - 1
    PROVE  /\ FuncAt(k) \in 0..Patch!Words - 1 /\ (FuncAt(k) - at.func) % Patch!Words = k
           /\ FuncAt(k) # at.hook
<1>1. k \in 0..Patch!Words - 1 /\ at.func \in 0..Patch!Words - 1 /\ Patch!Words \in Nat \ {0}
      BY BoundariesAscend, LayoutParts, WordsNat
<1>2. at.func + k \in Int
      BY <1>1
<1>3. FuncAt(k) \in 0..Patch!Words - 1
      BY <1>1, <1>2, ModRange DEF FuncAt
<1>4. (FuncAt(k) - at.func) % Patch!Words = k
      BY <1>1, ModBack DEF FuncAt
<1>5. FuncAt(k) # at.hook
      BY LayoutAssumption DEF Apart, FuncAt
<1> QED BY <1>3, <1>4, <1>5

LEMMA FuncStart == ASSUME at \in Layouts PROVE FuncAt(0) = at.func
<1>1. PICK f \in 0..Patch!Words - 1 : f = at.func
      BY LayoutParts
<1>2. Patch!Words \in Nat \ {0} /\ f + 0 = f /\ f \in Int
      BY WordsNat
<1>3. f % Patch!Words = f
      BY <1>2, ModSmall
<1> QED BY <1>1, <1>2, <1>3 DEF FuncAt

LEMMA TrampAddress ==
    ASSUME at \in Layouts, NEW i \in 0..TrampolineSize(at) - 1
    PROVE  /\ TrampAt(i) \in 0..Patch!Words - 1 /\ (TrampAt(i) - at.tramp) % Patch!Words = i
           /\ TrampAt(i) # at.hook
           /\ \A k \in 0..Size - 1 : FuncAt(k) # TrampAt(i)
<1>0. TrampolineSize(at) <= Patch!Words /\ TrampolineSize(at) \in Int
      BY LayoutParts DEF TrampolineSize
<1>1. i \in 0..Patch!Words - 1 /\ at.tramp \in 0..Patch!Words - 1 /\ Patch!Words \in Nat \ {0}
      BY <1>0, LayoutParts, WordsNat
<1>2. at.tramp + i \in Int
      BY <1>1
<1>3. TrampAt(i) \in 0..Patch!Words - 1
      BY <1>1, <1>2, ModRange DEF TrampAt
<1>4. (TrampAt(i) - at.tramp) % Patch!Words = i
      BY <1>1, ModBack DEF TrampAt
<1>5. TrampAt(i) # at.hook /\ \A k \in 0..Size - 1 : FuncAt(k) # TrampAt(i)
      BY LayoutAssumption DEF Apart, FuncAt, TrampAt
<1> QED BY <1>3, <1>4, <1>5

LEMMA JumpBytes ==
    ASSUME NEW d
    PROVE  /\ Patch!JumpBy(d) \in Seq({Patch!Jump} \cup {Patch!Distance(d, i) : i \in 1..4})
           /\ Len(Patch!JumpBy(d)) = 5 /\ Patch!JumpBy(d)[1] = Patch!Jump
           /\ \A i \in 1..4 : Patch!JumpBy(d)[i + 1] = Patch!Distance(d, i)
<1> DEFINE S == {Patch!Jump} \cup {Patch!Distance(d, i) : i \in 1..4}
           s == <<Patch!Jump>>
           u == [i \in 1..4 |-> Patch!Distance(d, i)]
<1>1. s \in Seq(S) /\ Len(s) = 1 /\ s[1] = Patch!Jump
      OBVIOUS
<1>2. u \in Seq(S) /\ Len(u) = 4 /\ \A i \in 1..4 : u[i] = Patch!Distance(d, i)
      OBVIOUS
<1> HIDE DEF S, s, u
<1>3. PICK j : j = s \o u
      OBVIOUS
<1>4. /\ j \in Seq(S) /\ Len(j) = Len(s) + Len(u)
      /\ \A i \in 1 .. Len(s) + Len(u) : j[i] = IF i <= Len(s) THEN s[i] ELSE u[i - Len(s)]
      BY <1>1, <1>2, <1>3, ConcatProperties
<1>5. j[1] = Patch!Jump
      BY <1>1, <1>2, <1>4
<1>6. ASSUME NEW i \in 1..4 PROVE j[i + 1] = Patch!Distance(d, i)
  <2>1. i + 1 \in 1 .. Len(s) + Len(u) /\ ~(i + 1 <= Len(s)) /\ i + 1 - Len(s) = i
        BY <1>1, <1>2
  <2>2. j[i + 1] = u[i]
        BY <1>4, <2>1
  <2> QED BY <1>2, <2>2
<1>7. j = Patch!JumpBy(d)
      BY <1>3 DEF Patch!JumpBy, s, u
<1> QED BY <1>1, <1>2, <1>4, <1>5, <1>6, <1>7 DEF S


\* The bytes that Build writes.
LEMMA BuildBytes ==
    ASSUME at \in Layouts, saved = [k \in 1..Moved |-> Patch!Original(k - 1)], funcTramp = at.tramp,
           NEW bytes, bytes = saved \o Patch!Rest
    PROVE  /\ DOMAIN bytes = 1..TrampolineSize(at)
           /\ \A i \in 0..Moved - 1 : bytes[i + 1] = Patch!Original(i)
           /\ at.x64 => bytes[11] = Patch!GoTo(FuncAt(5))
           /\ ~at.x64 => /\ bytes[6] = Patch!Jump
                         /\ \A i \in 1..4 : bytes[6 + i] =
                               Patch!Distance((at.func - at.tramp - 5) % Patch!Words, i)
<1>1. /\ at.x64 \in BOOLEAN
      /\ at.x64 => Moved = 10 /\ TrampolineSize(at) = 11
      /\ ~at.x64 => Moved = 5 /\ TrampolineSize(at) = 10
      BY LayoutParts
<1>2. /\ \A S : {Patch!Original(k - 1) : k \in 1..Moved} \subseteq S => saved \in Seq(S)
      /\ Len(saved) = Moved /\ \A i \in 0..Moved - 1 : saved[i + 1] = Patch!Original(i)
  <2>1. Moved \in Nat
        BY <1>1
  <2> QED BY <2>1
<1>3. CASE at.x64
  <2>1. PICK u : u = <<Patch!GoTo(FuncAt(5))>>
        OBVIOUS
  <2>2. Patch!Rest = u
        BY <1>3, <2>1 DEF Patch!Rest, FuncAt
  <2>3. PICK S : S = {Patch!Original(k - 1) : k \in 1..Moved} \cup {Patch!GoTo(FuncAt(5))}
        OBVIOUS
  <2>4. u \in Seq(S) /\ Len(u) = 1 /\ u[1] = Patch!GoTo(FuncAt(5)) /\ saved \in Seq(S)
        BY <1>2, <2>1, <2>3
  <2>5. /\ bytes \in Seq(S) /\ Len(bytes) = Len(saved) + Len(u)
        /\ \A i \in 1 .. Len(saved) + Len(u) : bytes[i] = IF i <= Len(saved) THEN saved[i] ELSE u[i - Len(saved)]
        BY <2>2, <2>4, ConcatProperties
  <2>6. DOMAIN bytes = 1..11
    <3>1. Len(bytes) = 11
          BY <1>1, <1>2, <1>3, <2>4, <2>5
    <3>2. bytes \in Seq(S)
          BY <2>5
    <3> QED BY <3>1, <3>2, LenProperties
  <2>7. \A i \in 0..Moved - 1 : bytes[i + 1] = Patch!Original(i)
        BY <1>1, <1>2, <1>3, <2>4, <2>5
  <2>8. bytes[11] = Patch!GoTo(FuncAt(5))
        BY <1>1, <1>2, <1>3, <2>4, <2>5
  <2> QED BY <1>1, <1>3, <2>6, <2>7, <2>8
<1>4. CASE ~at.x64
  <2>1. PICK d : d = (at.func - at.tramp - 5) % Patch!Words
        OBVIOUS
  <2>2. PICK u : u = Patch!JumpBy(d)
        OBVIOUS
  <2>3. Patch!Rest = u
    <3>1. Patch!len(at) = 5
          BY <1>4 DEF Patch!len
    <3> QED BY <1>4, <2>1, <2>2, <3>1 DEF Patch!Rest, Patch!BackJump
  <2>4. PICK S : S = {Patch!Original(k - 1) : k \in 1..Moved}
                        \cup ({Patch!Jump} \cup {Patch!Distance(d, i) : i \in 1..4})
        OBVIOUS
  <2>5. u \in Seq({Patch!Jump} \cup {Patch!Distance(d, i) : i \in 1..4})
        BY <2>2, JumpBytes
  <2>6. u \in Seq(S)
        BY <2>4, <2>5, SeqMonotonic
  <2>7. Len(u) = 5 /\ u[1] = Patch!Jump /\ \A i \in 1..4 : u[i + 1] = Patch!Distance(d, i)
        BY <2>2, JumpBytes
  <2>8. saved \in Seq(S)
        BY <1>2, <2>4
  <2>9. /\ bytes \in Seq(S) /\ Len(bytes) = Len(saved) + Len(u)
        /\ \A i \in 1 .. Len(saved) + Len(u) : bytes[i] = IF i <= Len(saved) THEN saved[i] ELSE u[i - Len(saved)]
        BY <2>3, <2>6, <2>8, ConcatProperties
  <2>10. DOMAIN bytes = 1..10
    <3>1. Len(bytes) = 10
          BY <1>1, <1>2, <1>4, <2>7, <2>9
    <3>2. bytes \in Seq(S)
          BY <2>9
    <3> QED BY <3>1, <3>2, LenProperties
  <2>11. \A i \in 0..Moved - 1 : bytes[i + 1] = Patch!Original(i)
        BY <1>1, <1>2, <1>4, <2>7, <2>9
  <2>12. bytes[6] = Patch!Jump
    <3>1. 6 \in 1 .. Len(saved) + Len(u) /\ ~(6 <= Len(saved)) /\ 6 - Len(saved) = 1
          BY <1>1, <1>2, <1>4, <2>7
    <3>2. bytes[6] = u[6 - Len(saved)]
          BY <2>9, <3>1
    <3> QED BY <2>7, <3>1, <3>2
  <2>13. ASSUME NEW i \in 1..4 PROVE bytes[6 + i] = Patch!Distance(d, i)
    <3>1. PICK m \in Nat : m = 6 + i
          OBVIOUS
    <3>2. m \in 1 .. Len(saved) + Len(u) /\ ~(m <= Len(saved)) /\ m - Len(saved) = i + 1
          BY <1>1, <1>2, <1>4, <2>7, <3>1
    <3>3. bytes[m] = u[m - Len(saved)]
          BY <2>9, <3>2
    <3> QED BY <2>7, <3>1, <3>2, <3>3
  <2> QED BY <1>1, <1>4, <2>1, <2>10, <2>11, <2>12, <2>13
<1> QED BY <1>1, <1>3, <1>4

LEMMA PatchInit == Patch!Init => MemoryInv
<1> SUFFICES ASSUME Patch!Init PROVE MemoryInv
    OBVIOUS
<1>1. /\ at \in Layouts /\ stage = "none"
      /\ memory = [a \in {(at.func + k) % Patch!Words : k \in 0..Size - 1} |->
                      Patch!Original((a - at.func) % Patch!Words)]
      BY DEF Patch!Init
<1>2. ASSUME NEW k \in 0..Size - 1 PROVE Holds(FuncAt(k), Content(k))
  <2>1. FuncAt(k) \in DOMAIN memory /\ memory[FuncAt(k)] = Patch!Original((FuncAt(k) - at.func) % Patch!Words)
        BY <1>1 DEF FuncAt
  <2>2. memory[FuncAt(k)] = Patch!Original(k)
        BY <1>1, <2>1, FuncAddress
  <2>3. Content(k) = Patch!Original(k)
        BY <1>1 DEF Content, Pristine
  <2> QED BY <2>1, <2>2, <2>3 DEF Holds
<1> QED BY <1>1, <1>2 DEF MemoryInv, StageInv, TodoInv, FunctionInv, SavedInv, AllocInv, TrampInv

\* What depends on the layout alone does not change.
LEMMA LayoutStays ==
    ASSUME at' = at
    PROVE  /\ \A k : FuncAt(k)' = FuncAt(k) /\ TrampAt(k)' = TrampAt(k)
           /\ Moved' = Moved /\ Patch!ProxyCode' = Patch!ProxyCode
<1>1. \A k : FuncAt(k)' = FuncAt(k) /\ TrampAt(k)' = TrampAt(k)
      BY DEF FuncAt, TrampAt
<1>2. Moved' = Moved
      BY DEF Moved, Patch!len
<1>3. Patch!ProxyCode' = Patch!ProxyCode
      BY DEF Patch!ProxyCode
<1> QED BY <1>1, <1>2, <1>3


LEMMA FunctionKept ==
    ASSUME FunctionInv, at' = at,
           \A k \in 0..Size - 1 : Content(k)' = Content(k),
           \A k \in 0..Size - 1 : FuncAt(k) \in DOMAIN memory =>
               FuncAt(k) \in DOMAIN memory' /\ memory'[FuncAt(k)] = memory[FuncAt(k)]
    PROVE  FunctionInv'
<1>1. ASSUME NEW k \in 0..Size - 1 PROVE Holds(FuncAt(k), Content(k))'
  <2>1. FuncAt(k) \in DOMAIN memory /\ memory[FuncAt(k)] = Content(k)
        BY DEF FunctionInv, Holds
  <2>2. FuncAt(k) \in DOMAIN memory' /\ memory'[FuncAt(k)] = Content(k)'
        BY <2>1
  <2> QED BY <2>2, LayoutStays DEF Holds
<1> QED BY <1>1 DEF FunctionInv

LEMMA TrampKept ==
    ASSUME at \in Layouts, TrampBuilt, at' = at,
           \A i \in 0..TrampolineSize(at) - 1 : TrampAt(i) \in DOMAIN memory =>
               TrampAt(i) \in DOMAIN memory' /\ memory'[TrampAt(i)] = memory[TrampAt(i)]
    PROVE  TrampBuilt'
<1>1. /\ at.x64 \in BOOLEAN
      /\ at.x64 => Moved = 10 /\ TrampolineSize(at) = 11
      /\ ~at.x64 => Moved = 5 /\ TrampolineSize(at) = 10
      BY LayoutParts
<1>2. ASSUME NEW i \in 0..TrampolineSize(at) - 1, NEW b, Holds(TrampAt(i), b)
      PROVE  Holds(TrampAt(i), b)'
      BY <1>2, LayoutStays DEF Holds
<1>3. ASSUME NEW i \in 0..Moved - 1 PROVE Holds(TrampAt(i), Patch!Original(i))'
  <2>1. i \in 0..TrampolineSize(at) - 1 /\ Holds(TrampAt(i), Patch!Original(i))
        BY <1>1 DEF TrampBuilt
  <2>2. PICK b : b = Patch!Original(i)
        OBVIOUS
  <2>3. Holds(TrampAt(i), b)'
        BY <1>2, <2>1, <2>2
  <2> QED BY <2>2, <2>3 DEF Patch!Original
<1>4. ASSUME at.x64 PROVE Holds(TrampAt(10), Patch!GoTo(FuncAt(5)))'
  <2>1. PICK b : b = Patch!GoTo(FuncAt(5))
        OBVIOUS
  <2>2. 10 \in 0..TrampolineSize(at) - 1 /\ Holds(TrampAt(10), b)
        BY <1>1, <1>4, <2>1 DEF TrampBuilt
  <2>3. Holds(TrampAt(10), b)'
        BY <1>2, <2>2
  <2>4. b = Patch!GoTo(FuncAt(5))'
        BY <2>1, LayoutStays DEF Patch!GoTo
  <2> QED BY <2>3, <2>4 DEF Holds
<1>5. ASSUME ~at.x64 PROVE Holds(TrampAt(5), Patch!Jump)'
  <2>1. 5 \in 0..TrampolineSize(at) - 1 /\ Holds(TrampAt(5), Patch!Jump)
        BY <1>1, <1>5 DEF TrampBuilt
  <2>2. PICK b : b = Patch!Jump
        OBVIOUS
  <2>3. Holds(TrampAt(5), b)'
        BY <1>2, <2>1, <2>2
  <2> QED BY <2>2, <2>3 DEF Patch!Jump
<1>6. ASSUME ~at.x64, NEW i \in 1..4
      PROVE  Holds(TrampAt(5 + i), Patch!Distance((at.func - at.tramp - 5) % Patch!Words, i))'
  <2>1. PICK b : b = Patch!Distance((at.func - at.tramp - 5) % Patch!Words, i)
        OBVIOUS
  <2>2. PICK m : m = 5 + i
        OBVIOUS
  <2>3. m \in 0..TrampolineSize(at) - 1 /\ Holds(TrampAt(m), b)
        BY <1>1, <1>6, <2>1, <2>2 DEF TrampBuilt
  <2>4. Holds(TrampAt(m), b)'
        BY <1>2, <2>3
  <2> QED BY <2>1, <2>2, <2>4 DEF Patch!Distance
<1> QED BY <1>3, <1>4, <1>5, <1>6 DEF TrampBuilt, Moved, Patch!len

\* Begin, Alloc and Copy write nothing.
LEMMA QuietStep ==
    ASSUME MemoryInv, Patch!Begin \/ Patch!Alloc \/ Patch!Copy
    PROVE  MemoryInv'
<1>1. at \in Layouts /\ at' = at /\ memory' = memory
      BY DEF MemoryInv, StageInv, Patch!Begin, Patch!Alloc, Patch!Copy
<1>2. /\ at.x64 \in BOOLEAN /\ (at.x64 => Moved = 10) /\ (~at.x64 => Moved = 5)
      /\ Moved' = Moved /\ Patch!len(at) = Moved
      BY <1>1, LayoutParts, LayoutStays DEF Moved
<1>3. FunctionInv'
  <2>1. ASSUME NEW k \in 0..Size - 1 PROVE Content(k)' = Content(k)
    <3>1. New(k)' = New(k) \/ Pristine \/ stage = "copy"
      <4>1. CASE Patch!Begin \/ Patch!Copy
            BY <4>1 DEF Patch!Begin, Patch!Copy, Pristine
      <4>2. CASE Patch!Alloc
            BY <1>1, <4>2, LayoutStays DEF Patch!Alloc, Pristine, New, Patch!Garbage, Patch!Nop
      <4> QED BY <4>1, <4>2
    <3>2. CASE Patch!Begin
          BY <1>1, <1>2, <3>2 DEF Patch!Begin, Content, Pristine, Patch!Original
    <3>3. CASE Patch!Alloc
          BY <1>1, <1>2, <3>1, <3>3 DEF Patch!Alloc, Content, Pristine, Patch!Original
    <3>4. CASE Patch!Copy
      <4>1. Content(k) = Patch!Original(k)
            BY <3>4 DEF Patch!Copy, Content, Pristine
      <4>2. CASE at.x64
        <5>1. stage' = "jump" /\ todo' = 0..Moved - 1
              BY <1>2, <3>4, <4>2 DEF Patch!Copy
        <5>2. k >= Moved \/ k \in todo'
              BY <1>2, <4>2, <5>1
        <5> QED BY <1>2, <4>1, <5>1, <5>2 DEF Content, Patch!Original
      <4>3. CASE ~at.x64
            BY <1>1, <3>4, <4>1, <4>3 DEF Patch!Copy, Content, Pristine, Patch!Original
      <4> QED BY <1>2, <4>2, <4>3
    <3> QED BY <3>2, <3>3, <3>4
  <2> QED BY <1>1, <2>1, FunctionKept DEF MemoryInv
<1>4. SavedInv'
  <2>1. CASE Patch!Begin
        BY <1>1, <1>2, <2>1 DEF Patch!Begin, SavedInv
  <2>2. CASE Patch!Alloc
        BY <1>1, <1>2, <2>2 DEF Patch!Alloc, SavedInv, MemoryInv, Patch!Original
  <2>3. CASE Patch!Copy
    <3>1. saved' = [k \in 1..Moved |-> memory[(at.func + k - 1) % Patch!Words]]
          BY <1>2, <2>3 DEF Patch!Copy, Patch!Copied
    <3>2. ASSUME NEW k \in 1..Moved PROVE memory[(at.func + k - 1) % Patch!Words] = Patch!Original(k - 1)
      <4>1. k - 1 \in 0..Size - 1
            BY <1>1, <1>2, LayoutParts, BoundariesAscend
      <4>2. (at.func + k - 1) % Patch!Words = FuncAt(k - 1)
        <5>1. at.func \in Int
              BY <1>1, LayoutParts, WordsNat
        <5>2. at.func + k - 1 = at.func + (k - 1)
              BY <1>2, <5>1
        <5> QED BY <5>2 DEF FuncAt
      <4>3. Content(k - 1) = Patch!Original(k - 1)
            BY <2>3 DEF Patch!Copy, Content, Pristine
      <4>4. memory[FuncAt(k - 1)] = Content(k - 1)
            BY <4>1 DEF MemoryInv, FunctionInv, Holds
      <4> QED BY <4>2, <4>3, <4>4
    <3>3. saved' = [k \in 1..Moved |-> Patch!Original(k - 1)]
          BY <3>1, <3>2
    <3> QED BY <1>2, <3>3 DEF SavedInv, Patch!Original
  <2> QED BY <2>1, <2>2, <2>3
<1>5. TodoInv' /\ StageInv'
  <2>1. CASE Patch!Begin
        BY <1>1, <1>2, <2>1 DEF Patch!Begin, TodoInv, StageInv
  <2>2. CASE Patch!Alloc
        BY <1>1, <1>2, <2>2 DEF Patch!Alloc, TodoInv, StageInv, MemoryInv
  <2>3. CASE Patch!Copy
    <3>1. todo' = 0..Moved - 1 /\ todo' # {} /\ stage' \in {"jump", "build"}
          BY <1>2, <2>3 DEF Patch!Copy
    <3> QED BY <1>1, <1>2, <3>1 DEF TodoInv, StageInv
  <2> QED BY <2>1, <2>2, <2>3
<1>6. AllocInv' /\ TrampInv'
  <2>1. CASE Patch!Begin
        BY <1>1, <1>2, <2>1 DEF Patch!Begin, AllocInv, TrampInv
  <2>2. CASE Patch!Alloc
        BY <1>1, <1>2, <2>2 DEF Patch!Alloc, AllocInv, TrampInv
  <2>3. CASE Patch!Copy
        BY <1>1, <1>2, <2>3 DEF Patch!Copy, AllocInv, TrampInv, MemoryInv
  <2> QED BY <2>1, <2>2, <2>3
<1> QED BY <1>3, <1>4, <1>5, <1>6 DEF MemoryInv


LEMMA BuildStep == ASSUME MemoryInv, Patch!Build PROVE MemoryInv'
<1>1. /\ at \in Layouts /\ at' = at /\ stage = "build"
      /\ stage' = IF at.x64 THEN "hooked" ELSE "jump"
      /\ funcTramp' = funcTramp /\ todo' = todo /\ saved' = saved
      BY DEF MemoryInv, StageInv, Patch!Build
<1>2. /\ at.x64 \in BOOLEAN /\ Moved' = Moved
      /\ at.x64 => Moved = 10 /\ TrampolineSize(at) = 11
      /\ ~at.x64 => Moved = 5 /\ TrampolineSize(at) = 10
      BY <1>1, LayoutParts, LayoutStays
<1>3. funcTramp = at.tramp /\ saved = [k \in 1..Moved |-> Patch!Original(k - 1)]
      BY <1>1, <1>2 DEF MemoryInv, AllocInv, SavedInv
<1>4. PICK bytes : bytes = saved \o Patch!Rest
      OBVIOUS
<1>5. /\ DOMAIN bytes = 1..TrampolineSize(at)
      /\ \A i \in 0..Moved - 1 : bytes[i + 1] = Patch!Original(i)
      /\ at.x64 => bytes[11] = Patch!GoTo(FuncAt(5))
      /\ ~at.x64 => /\ bytes[6] = Patch!Jump
                    /\ \A i \in 1..4 : bytes[6 + i] =
                          Patch!Distance((at.func - at.tramp - 5) % Patch!Words, i)
      BY <1>1, <1>3, <1>4, BuildBytes
<1>6. PICK where : where = {(funcTramp + i - 1) % Patch!Words : i \in DOMAIN bytes}
      OBVIOUS
<1>7. memory' = [a \in DOMAIN memory \cup where |->
                    IF a \in where THEN bytes[((a - funcTramp) % Patch!Words) + 1] ELSE memory[a]]
      BY <1>4, <1>6 DEF Patch!Build
<1>8. where = {TrampAt(i) : i \in 0..TrampolineSize(at) - 1}
  <2>0. at.tramp \in Int /\ TrampolineSize(at) \in Nat
        BY <1>1, <1>2, LayoutParts, WordsNat
  <2>1. ASSUME NEW i \in 1..TrampolineSize(at)
        PROVE  (funcTramp + i - 1) % Patch!Words = TrampAt(i - 1) /\ i - 1 \in 0..TrampolineSize(at) - 1
    <3>1. funcTramp + i - 1 = at.tramp + (i - 1)
          BY <1>3, <2>0
    <3> QED BY <2>0, <3>1 DEF TrampAt
  <2>2. ASSUME NEW i \in 0..TrampolineSize(at) - 1
        PROVE  \E j \in 1..TrampolineSize(at) : TrampAt(i) = TrampAt(j - 1)
    <3>1. i + 1 \in 1..TrampolineSize(at) /\ i + 1 - 1 = i
          BY <2>0
    <3> QED BY <3>1
  <2> QED BY <1>5, <1>6, <2>1, <2>2
<1>9. ASSUME NEW i \in 0..TrampolineSize(at) - 1
      PROVE  TrampAt(i)' \in DOMAIN memory' /\ memory'[TrampAt(i)'] = bytes[i + 1]
  <2>1. TrampAt(i) \in where
        BY <1>8
  <2>2. (TrampAt(i) - funcTramp) % Patch!Words = i
        BY <1>1, <1>3, TrampAddress
  <2>3. TrampAt(i) \in DOMAIN memory' /\ memory'[TrampAt(i)] = bytes[i + 1]
        BY <1>7, <2>1, <2>2
  <2> QED BY <1>1, <2>3, LayoutStays
<1>10. TrampBuilt'
  <2>1. ASSUME NEW i \in 0..Moved - 1 PROVE Holds(TrampAt(i), Patch!Original(i))'
    <3>1. i \in 0..TrampolineSize(at) - 1
          BY <1>2
    <3> QED BY <1>5, <1>9, <3>1 DEF Holds, Patch!Original
  <2>2. ASSUME at.x64 PROVE Holds(TrampAt(10), Patch!GoTo(FuncAt(5)))'
    <3>1. 10 \in 0..TrampolineSize(at) - 1 /\ 10 + 1 = 11
          BY <1>2, <2>2
    <3>2. TrampAt(10)' \in DOMAIN memory' /\ memory'[TrampAt(10)'] = Patch!GoTo(FuncAt(5))
          BY <1>5, <1>9, <2>2, <3>1
    <3> QED BY <1>1, <3>2, LayoutStays DEF Holds, Patch!GoTo
  <2>3. ASSUME ~at.x64 PROVE Holds(TrampAt(5), Patch!Jump)'
    <3>1. 5 \in 0..TrampolineSize(at) - 1 /\ 5 + 1 = 6
          BY <1>2, <2>3
    <3>2. TrampAt(5)' \in DOMAIN memory' /\ memory'[TrampAt(5)'] = Patch!Jump
          BY <1>5, <1>9, <2>3, <3>1
    <3> QED BY <3>2 DEF Holds, Patch!Jump
  <2>4. ASSUME ~at.x64, NEW i \in 1..4
        PROVE  Holds(TrampAt(5 + i), Patch!Distance((at.func - at.tramp - 5) % Patch!Words, i))'
    <3>1. PICK m \in 0..TrampolineSize(at) - 1 : m = 5 + i
          BY <1>2, <2>4
    <3>2. m + 1 = 6 + i
          BY <3>1
    <3>3. PICK d : d = (at.func - at.tramp - 5) % Patch!Words
          OBVIOUS
    <3>4. TrampAt(m)' \in DOMAIN memory' /\ memory'[TrampAt(m)'] = Patch!Distance(d, i)
          BY <1>5, <1>9, <2>4, <3>2, <3>3
    <3>5. d = ((at.func - at.tramp - 5) % Patch!Words)'
          BY <1>1, <3>3
    <3> QED BY <3>1, <3>4, <3>5 DEF Holds, Patch!Distance
  <2> QED BY <1>1, <1>2, <2>1, <2>2, <2>3, <2>4 DEF TrampBuilt
<1>11. FunctionInv'
  <2>1. ASSUME NEW k \in 0..Size - 1, FuncAt(k) \in DOMAIN memory
        PROVE  FuncAt(k) \in DOMAIN memory' /\ memory'[FuncAt(k)] = memory[FuncAt(k)]
    <3>1. FuncAt(k) \notin where
          BY <1>1, <1>8, TrampAddress
    <3> QED BY <1>7, <2>1, <3>1
  <2>2. ASSUME NEW k \in 0..Size - 1 PROVE Content(k)' = Content(k)
    <3>1. CASE at.x64
      <4>1. ~Pristine /\ ~Pristine'
            BY <1>1, <3>1 DEF Pristine
      <4>2. New(k)' = New(k)
            BY <1>1, <3>1, LayoutStays DEF New, Patch!Nop, Patch!Garbage
      <4> QED BY <1>1, <1>2, <3>1, <4>1, <4>2 DEF Content, Patch!Original
    <3>2. CASE ~at.x64
      <4>1. Content(k) = Patch!Original(k)
            BY <1>1, <3>2 DEF Content, Pristine
      <4>2. todo = 0..Moved - 1
            BY <1>1, <3>2 DEF MemoryInv, TodoInv
      <4>3. k >= Moved \/ k \in todo'
            BY <1>1, <1>2, <3>2, <4>2
      <4> QED BY <1>1, <1>2, <3>2, <4>1, <4>3 DEF Content, Patch!Original
    <3> QED BY <1>2, <3>1, <3>2
  <2> QED BY <1>1, <2>1, <2>2, FunctionKept DEF MemoryInv
<1>12. TodoInv' /\ StageInv'
  <2>1. ~at.x64 => todo = 0..Moved - 1 /\ todo # {}
    <3>1. ~at.x64 => todo = 0..Moved - 1
          BY <1>1 DEF MemoryInv, TodoInv
    <3>2. ~at.x64 => 0 \in 0..Moved - 1
          BY <1>2
    <3> QED BY <3>1, <3>2
  <2> QED BY <1>1, <1>2, <2>1 DEF TodoInv, StageInv
<1>13. SavedInv' /\ AllocInv'
      BY <1>1, <1>2, <1>3 DEF SavedInv, AllocInv, Patch!Original
<1> QED BY <1>10, <1>11, <1>12, <1>13 DEF MemoryInv, TrampInv

LEMMA WriteStep == ASSUME MemoryInv, NEW k \in 0..9, Patch!WriteJump(k) PROVE MemoryInv'
<1>1. /\ at \in Layouts /\ at' = at /\ stage = "jump" /\ k \in todo
      /\ todo' = todo \ {k}
      /\ stage' = IF todo' # {} THEN "jump" ELSE IF Moved > 5 THEN "fill" ELSE "hooked"
      /\ funcTramp' = funcTramp /\ saved' = saved
      BY DEF MemoryInv, StageInv, Patch!WriteJump, Moved
<1>2. /\ at.x64 \in BOOLEAN /\ Moved' = Moved /\ Moved <= Size - 1 /\ Size \in Nat
      /\ at.x64 => Moved = 10
      /\ ~at.x64 => Moved = 5 /\ TrampolineSize(at) = 10
      BY <1>1, LayoutParts, LayoutStays, BoundariesAscend
<1>3. todo \subseteq 0..Moved - 1 /\ k \in 0..Moved - 1 /\ k \in 0..Size - 1
      BY <1>1, <1>2 DEF MemoryInv, TodoInv
<1>4. PICK b : b = IF k < 5 THEN Patch!ProxyCode[k + 1] ELSE Patch!Garbage
      OBVIOUS
<1>5. memory' = [memory EXCEPT ![FuncAt(k)] = b]
      BY <1>4 DEF Patch!WriteJump, FuncAt
<1>6. \A m \in 0..Size - 1 : FuncAt(m) \in DOMAIN memory /\ memory[FuncAt(m)] = Content(m)
      BY DEF MemoryInv, FunctionInv, Holds
<1>7. FunctionInv'
  <2>1. ASSUME NEW m \in 0..Size - 1, m = k
        PROVE  FuncAt(m) \in DOMAIN memory' /\ memory'[FuncAt(m)] = Content(m)'
    <3>1. memory'[FuncAt(k)] = b /\ FuncAt(k) \in DOMAIN memory'
          BY <1>3, <1>5, <1>6
    <3>2. ~(k >= Moved') /\ k \notin todo' /\ ~Pristine'
          BY <1>1, <1>2, <1>3 DEF Pristine
    <3>3. Content(k)' = New(k)'
          BY <3>2 DEF Content
    <3>4. CASE k < 5
          BY <1>1, <1>4, <2>1, <3>1, <3>3, <3>4, LayoutStays DEF New
    <3>5. CASE ~(k < 5)
      <4>1. stage' \in {"jump", "fill"}
            BY <1>1, <1>2, <1>3, <3>5
      <4> QED BY <1>4, <2>1, <3>1, <3>3, <3>5, <4>1 DEF New, Patch!Garbage
    <3> QED BY <3>4, <3>5
  <2>2. ASSUME NEW m \in 0..Size - 1, m # k
        PROVE  FuncAt(m) \in DOMAIN memory' /\ memory'[FuncAt(m)] = Content(m)'
    <3>1. FuncAt(m) # FuncAt(k)
          BY <1>1, <1>3, <2>2, FuncAddress
    <3>2. FuncAt(m) \in DOMAIN memory' /\ memory'[FuncAt(m)] = Content(m)
          BY <1>5, <1>6, <3>1
    <3>3. ~Pristine /\ ~Pristine'
          BY <1>1 DEF Pristine
    <3>4. CASE m >= Moved
          BY <1>2, <3>2, <3>4 DEF Content, Patch!Original
    <3>5. CASE ~(m >= Moved) /\ m \in todo
      <4>1. m \in todo' /\ stage' = "jump"
            BY <1>1, <2>2, <3>5
      <4> QED BY <1>1, <3>2, <3>5, <4>1 DEF Content, Patch!Original
    <3>6. CASE ~(m >= Moved) /\ m \notin todo
      <4>1. Content(m) = New(m) /\ Content(m)' = New(m)'
            BY <1>1, <1>2, <3>3, <3>6 DEF Content
      <4>2. m >= 5 => stage' \in {"jump", "fill"}
            BY <1>1, <1>2, <3>6
      <4>3. New(m)' = New(m)
            BY <1>1, <4>2, LayoutStays DEF New, Patch!Garbage
      <4> QED BY <3>2, <4>1, <4>3
    <3> QED BY <3>4, <3>5, <3>6
  <2>3. ASSUME NEW m \in 0..Size - 1 PROVE Holds(FuncAt(m), Content(m))'
    <3>1. FuncAt(m) \in DOMAIN memory' /\ memory'[FuncAt(m)] = Content(m)'
          BY <2>1, <2>2
    <3> QED BY <1>1, <3>1, LayoutStays DEF Holds
  <2> QED BY <2>3 DEF FunctionInv
<1>8. TrampInv'
  <2>1. CASE at.x64
    <3>1. stage' # "hooked"
          BY <1>1, <1>2, <2>1
    <3> QED BY <1>1, <2>1, <3>1 DEF TrampInv
  <2>2. CASE ~at.x64
    <3>1. TrampBuilt
          BY <1>1, <2>2 DEF MemoryInv, TrampInv
    <3>2. ASSUME NEW i \in 0..TrampolineSize(at) - 1, TrampAt(i) \in DOMAIN memory
          PROVE  TrampAt(i) \in DOMAIN memory' /\ memory'[TrampAt(i)] = memory[TrampAt(i)]
      <4>1. TrampAt(i) # FuncAt(k)
            BY <1>1, <1>3, TrampAddress
      <4> QED BY <1>5, <3>2, <4>1
    <3>3. TrampBuilt'
          BY <1>1, <3>1, <3>2, TrampKept
    <3> QED BY <3>3 DEF TrampInv
  <2> QED BY <1>2, <2>1, <2>2
<1>9. TodoInv' /\ StageInv'
  <2>1. stage' = "jump" => todo' # {}
        BY <1>1
  <2>2. stage' \in {"jump", "fill", "hooked"} /\ (stage' = "fill" => at.x64)
        BY <1>1, <1>2
  <2> QED BY <1>1, <1>2, <1>3, <2>1, <2>2 DEF TodoInv, StageInv
<1>10. SavedInv' /\ AllocInv'
  <2>1. saved = [m \in 1..Moved |-> Patch!Original(m - 1)]
        BY <1>1, <1>2 DEF MemoryInv, SavedInv
  <2>2. stage' # "hooked" \/ ~at.x64
        BY <1>1, <1>2
  <2>3. stage' \in {"jump", "fill", "hooked"} /\ stage' # "build"
        BY <1>1, <1>2
  <2>4. ~at.x64 => funcTramp = at.tramp
        BY <1>1 DEF MemoryInv, AllocInv
  <2> QED BY <1>1, <1>2, <2>1, <2>2, <2>3, <2>4 DEF SavedInv, AllocInv, Patch!Original
<1> QED BY <1>7, <1>8, <1>9, <1>10 DEF MemoryInv

LEMMA FillStep == ASSUME MemoryInv, Patch!Fill PROVE MemoryInv'
<1>1. /\ at \in Layouts /\ at' = at /\ stage = "fill" /\ at.x64 /\ stage' = "alloc"
      /\ funcTramp' = funcTramp /\ todo' = todo /\ saved' = saved
      BY DEF MemoryInv, StageInv, Patch!Fill
<1>2. Moved = 10 /\ Moved' = Moved /\ Patch!len(at) = 10 /\ Moved <= Size - 1 /\ Size \in Nat
      BY <1>1, LayoutParts, LayoutStays, BoundariesAscend DEF Moved
<1>3. memory' = [a \in DOMAIN memory |->
                    IF \E k \in 5..9 : a = FuncAt(k) THEN Patch!Nop ELSE memory[a]]
      BY <1>2 DEF Patch!Fill, FuncAt
<1>4. ASSUME NEW m \in 0..Size - 1
      PROVE  FuncAt(m) \in DOMAIN memory' /\ memory'[FuncAt(m)] = Content(m)'
  <2>1. FuncAt(m) \in DOMAIN memory /\ memory[FuncAt(m)] = Content(m)
        BY DEF MemoryInv, FunctionInv, Holds
  <2>2. ~Pristine /\ ~Pristine'
        BY <1>1 DEF Pristine
  <2>3. (\E k \in 5..9 : FuncAt(m) = FuncAt(k)) <=> m \in 5..9
    <3>1. ASSUME NEW k \in 5..9, FuncAt(m) = FuncAt(k) PROVE m = k
      <4>1. k \in 0..Size - 1
            BY <1>2
      <4> QED BY <1>1, <3>1, <4>1, FuncAddress
    <3> QED BY <3>1
  <2>4. CASE m >= Moved
        BY <1>2, <1>3, <2>1, <2>3, <2>4 DEF Content, Patch!Original
  <2>5. CASE m \in 5..9
        BY <1>1, <1>2, <1>3, <2>1, <2>2, <2>3, <2>5 DEF Content, New, Patch!Nop
  <2>6. CASE m < 5
    <3>1. memory'[FuncAt(m)] = Patch!ProxyCode[m + 1]
          BY <1>1, <1>2, <1>3, <2>1, <2>2, <2>3, <2>6 DEF Content, New
    <3>2. Content(m)' = (Patch!ProxyCode[m + 1])'
          BY <1>1, <1>2, <2>2, <2>6 DEF Content, New
    <3> QED BY <1>1, <1>3, <2>1, <3>1, <3>2, LayoutStays
  <2> QED BY <1>2, <2>4, <2>5, <2>6
<1>5. FunctionInv'
  <2>1. ASSUME NEW m \in 0..Size - 1 PROVE Holds(FuncAt(m), Content(m))'
        BY <1>1, <1>4, LayoutStays DEF Holds
  <2> QED BY <2>1 DEF FunctionInv
<1>6. SavedInv' /\ AllocInv' /\ TrampInv' /\ TodoInv' /\ StageInv'
      BY <1>1, <1>2 DEF SavedInv, AllocInv, TrampInv, TodoInv, StageInv, MemoryInv, Patch!Original
<1> QED BY <1>5, <1>6 DEF MemoryInv


-----------------------------------------------------------------------------
(* Where jumps lead.                                                       *)

\* The address a jump of distance d reaches, counted from a.
LEMMA SignedJump ==
    ASSUME at \in Layouts, NEW a \in Int, NEW d \in Int, ~at.x64
    PROVE  (a + Patch!Signed(d % Patch!Words)) % Patch!Words = (a + d) % Patch!Words
<1> DEFINE w == Patch!Words
<1>1. w \in Nat \ {0}
      BY WordsNat
<1> HIDE DEF w
<1>2. PICK r \in 0..w - 1, q \in Int : d % w = r /\ d = w * q + r
      BY <1>1, ModRange
<1>3. PICK p \in {-q, -q - 1} : Patch!Signed(r) = d + w * p
  <2>1. w * (-q) = -(w * q) /\ w * (-q - 1) = -(w * q) - w
        BY <1>1, <1>2
  <2>2. Patch!Signed(r) = IF r < w \div 2 THEN r ELSE r - w
        BY DEF Patch!Signed, w
  <2>3. r = d + w * (-q) /\ r - w = d + w * (-q - 1)
        BY <1>1, <1>2, <2>1
  <2> QED BY <2>2, <2>3
<1>4. PICK x \in Int : x = a + d
      OBVIOUS
<1>5. p \in Int /\ w * p \in Int
      BY <1>1, <1>2
<1>6. (x + w * p) % w = x % w
      BY <1>1, <1>5, ModShift
<1>7. a + Patch!Signed(r) = x + w * p
      BY <1>3, <1>4, <1>5
<1> QED BY <1>2, <1>4, <1>6, <1>7 DEF w

LEMMA LowerHalf ==
    ASSUME NEW u \in Int, NEW e \in 0..Half - 1, NEW d \in Int, d = Half * u + e
    PROVE  d % Half = e
BY WordsNat, ModIs

\* The four bytes of the x64 version are enough for a hook that is near.
LEMMA SignedNear ==
    ASSUME at \in Layouts, Patch!Near, at.x64, NEW a \in Int, NEW d \in Int,
           d = at.hook - at.func - 5
    PROVE  (a + Patch!Signed(d % Half)) % Patch!Words = (a + d) % Patch!Words
<1> DEFINE w == Patch!Words
<1>0. w \in Nat \ {0} /\ Half \in Nat \ {0}
      BY WordsNat
<1>1. w \in Nat \ {0} /\ Half \in Nat \ {0} /\ w = Half * Half
      BY WordsNat DEF Patch!Words
<1> HIDE DEF w
<1>2. PICK r \in 0..w - 1, q \in Int : d % w = r /\ d = w * q + r
  <2>1. d % w \in 0..w - 1 /\ d \div w \in Int /\ d = w * (d \div w) + (d % w)
        BY <1>0, ModRange
  <2> QED BY <2>1
<1>3. PICK h \in Nat : h = Half \div 2 /\ 2 * h <= Half
      BY <1>1
<1>4. r \in 0..h - 1 \/ r \in w - h .. w - 1
      BY <1>2, <1>3 DEF Patch!Near, w
<1>5. PICK p \in {-q, -q - 1} : Patch!Signed(d % Half) = d + w * p
  <2>1. w * (-q) = -(w * q) /\ w * (-q - 1) = -(w * q) - w
        BY <1>1, <1>2
  <2>2. r = d + w * (-q) /\ r - w = d + w * (-q - 1)
        BY <1>1, <1>2, <2>1
  <2>3. \A n : Patch!Signed(n) = IF n < h THEN n ELSE n - Half
        BY <1>3 DEF Patch!Signed
  <2>4. CASE r \in 0..h - 1
    <3>1. PICK u \in Int : u = Half * q /\ d = Half * u + r
      <4>1. Half * q \in Int /\ d = Half * (Half * q) + r
            BY <1>1, <1>2
      <4> QED BY <4>1
    <3>2. r \in 0..Half - 1
          BY <1>1, <1>3, <2>4
    <3>3. d % Half = r
          BY <3>1, <3>2, LowerHalf
    <3>4. Patch!Signed(r) = r
          BY <2>3, <2>4
    <3> QED BY <2>2, <3>3, <3>4
  <2>5. CASE r \in w - h .. w - 1
    <3>1. PICK s \in 1..h : r = w - s
      <4>1. w - r \in 1..h /\ r = w - (w - r)
            BY <1>1, <1>3, <2>5
      <4> QED BY <4>1
    <3>2. Half - s \in 0..Half - 1 /\ ~(Half - s < h)
          BY <1>1, <1>3, <3>1
    <3>3. PICK u \in Int : u = Half * q + Half - 1
          BY <1>1
    <3>4. d = Half * u + (Half - s)
      <4>1. Half * u = Half * (Half * q) + Half * Half - Half
            BY <1>1, <3>3
      <4>2. Half * (Half * q) = w * q
            BY <1>1
      <4> QED BY <1>1, <1>2, <3>1, <4>1, <4>2
    <3>5. d % Half = Half - s
      <4>1. PICK e \in 0..Half - 1 : e = Half - s /\ d = Half * u + e
            BY <3>2, <3>4
      <4>2. d % Half = e
            BY <4>1, LowerHalf
      <4> QED BY <4>1, <4>2
    <3>6. Patch!Signed(Half - s) = Half - s - Half
          BY <2>3, <3>2
    <3>7. Half - s - Half = r - w
          BY <1>1, <3>1
    <3> QED BY <2>2, <3>5, <3>6, <3>7
  <2> QED BY <1>4, <2>4, <2>5
<1>6. PICK x \in Int : x = a + d
      OBVIOUS
<1>7. p \in Int /\ w * p \in Int
      BY <1>1, <1>2
<1>8. (x + w * p) % w = x % w
      BY <1>1, <1>7, ModShift
<1>9. a + Patch!Signed(d % Half) = x + w * p
      BY <1>5, <1>6, <1>7
<1> QED BY <1>6, <1>8, <1>9 DEF w

\* push, mov, pop, push and ret go to the address, with the sign of its lower half or not.
LEMMA ResumeGoesOn == ASSUME NEW a \in Nat PROVE Patch!Resume(a) = a
<1>1. Half \in Nat \ {0}
      BY WordsNat
<1>2. a \in Int /\ a = Half * (a \div Half) + (a % Half) /\ a \div Half \in Int /\ a % Half \in Int
      BY <1>1, ModRange
<1>3. Patch!Resume(a) = (a % Half) + Half * (a \div Half)
      BY DEF Patch!Resume
<1>4. Half * (a \div Half) \in Int
      BY <1>1, <1>2
<1> QED BY <1>2, <1>3, <1>4


-----------------------------------------------------------------------------
(* What a thread does where it is.                                         *)

CallTypeInv ==
    /\ caller \in [Callers -> {"out", "in", "done", "lost"}]
    /\ at_ip = [t \in Callers |-> at_ip[t]] /\ did \in [Callers -> Seq(Int)]
    /\ when \in [Callers -> {"before", "during", "after"}]

HookingSame == UNCHANGED <<at, memory, funcTramp, stage, todo, saved>>

\* Instruction n is there, whole: it is executed.
LEMMA AtInstruction ==
    ASSUME CallTypeInv, NEW t \in Callers, caller[t] = "in", at_ip[t] # at.hook, NEW n \in 1..Last,
           Patch!Byte(at_ip[t]) = Patch!Original(Boundaries[n]),
           \A i \in Boundaries[n] .. EndOf(n) - 1 :
               Patch!Byte(at_ip[t] + i - Boundaries[n]) = Patch!Original(i),
           Patch!Caller(t)
    PROVE  /\ did'[t] = Append(did[t], Boundaries[n]) /\ when'[t] = when[t]
           /\ caller'[t] = IF n = Last THEN "done" ELSE "in"
           /\ at_ip'[t] = (at_ip[t] + EndOf(n) - Boundaries[n]) % Patch!Words
           /\ HookingSame
<1>1. ~Patch!CallIt(t) /\ ~Patch!RunHook(t)
      BY DEF Patch!CallIt, Patch!RunHook
<1>2. ~Patch!TakeJump(t)
      BY DEF Patch!TakeJump, Patch!WholeJump, Patch!Original, Patch!Jump
<1>3. ~Patch!SkipNop(t) /\ ~Patch!Return(t)
      BY DEF Patch!SkipNop, Patch!Return, Patch!Original, Patch!Nop
<1>4. Boundaries[n] \in Patch!Starts /\ Patch!End(Boundaries[n]) = EndOf(n) /\ (EndOf(n) = Size <=> n = Last)
      BY BoundariesAscend, EndIs
<1>5. Patch!Whole(at_ip[t], Boundaries[n])
      BY <1>4 DEF Patch!Whole
<1>6. ~Patch!Stray(t)
      BY <1>4, <1>5 DEF Patch!Stray
<1>7. Patch!Execute(t)
      BY <1>1, <1>2, <1>3, <1>6 DEF Patch!Caller
<1>8. PICK k \in Patch!Starts :
         /\ Patch!Byte(at_ip[t]) = Patch!Original(k)
         /\ did' = [did EXCEPT ![t] = Append(@, k)]
         /\ caller' = [caller EXCEPT ![t] = IF Patch!End(k) = Size THEN "done" ELSE @]
         /\ Patch!GoOn(t, at_ip[t] + Patch!End(k) - k)
      BY <1>7 DEF Patch!Execute
<1>9. k = Boundaries[n]
      BY <1>8 DEF Patch!Original
<1>10. HookingSame /\ when' = when
       /\ at_ip' = [at_ip EXCEPT ![t] = (at_ip[t] + EndOf(n) - Boundaries[n]) % Patch!Words]
      BY <1>4, <1>8, <1>9 DEF Patch!GoOn, HookingSame, Patch!hooking
<1> QED BY <1>4, <1>8, <1>9, <1>10 DEF CallTypeInv

LEMMA AtJump ==
    ASSUME CallTypeInv, NEW t \in Callers, caller[t] = "in", at_ip[t] # at.hook, NEW d,
           Patch!Byte(at_ip[t]) = Patch!Jump,
           \A i \in 1..4 : Patch!Byte(at_ip[t] + i) = Patch!Distance(d, i),
           Patch!Caller(t)
    PROVE  /\ did'[t] = did[t] /\ when'[t] = when[t] /\ caller'[t] = "in"
           /\ at_ip'[t] = (at_ip[t] + 5 + Patch!Signed(d)) % Patch!Words
           /\ HookingSame
<1>1. ~Patch!CallIt(t) /\ ~Patch!RunHook(t)
      BY DEF Patch!CallIt, Patch!RunHook
<1>2. ~Patch!Execute(t)
      BY DEF Patch!Execute, Patch!Original, Patch!Jump
<1>3. ~Patch!SkipNop(t) /\ ~Patch!Return(t)
      BY DEF Patch!SkipNop, Patch!Return, Patch!Jump, Patch!Nop
<1>4. Patch!Byte(at_ip[t] + 1) = Patch!Distance(d, 1)
      OBVIOUS
<1>5. Patch!Byte(at_ip[t] + 1)[2] = d
      BY <1>4 DEF Patch!Distance
<1>6. Patch!WholeJump(at_ip[t])
      BY <1>5 DEF Patch!WholeJump
<1>7. Patch!TakeJump(t)
      BY <1>1, <1>2, <1>3, <1>6 DEF Patch!Caller, Patch!Stray
<1>8. /\ Patch!GoOn(t, at_ip[t] + 5 + Patch!Signed(d)) /\ caller' = caller /\ did' = did
      BY <1>5, <1>7 DEF Patch!TakeJump
<1> QED BY <1>8 DEF CallTypeInv, Patch!GoOn, HookingSame, Patch!hooking

LEMMA AtNop ==
    ASSUME CallTypeInv, NEW t \in Callers, caller[t] = "in", at_ip[t] # at.hook,
           Patch!Byte(at_ip[t]) = Patch!Nop, Patch!Caller(t)
    PROVE  /\ did'[t] = did[t] /\ when'[t] = when[t] /\ caller'[t] = "in"
           /\ at_ip'[t] = (at_ip[t] + 1) % Patch!Words
           /\ HookingSame
<1>1. ~Patch!CallIt(t) /\ ~Patch!RunHook(t)
      BY DEF Patch!CallIt, Patch!RunHook
<1>2. ~Patch!Execute(t) /\ ~Patch!TakeJump(t)
      BY DEF Patch!Execute, Patch!Original, Patch!Nop, Patch!TakeJump, Patch!WholeJump, Patch!Jump
<1>3. ~Patch!Return(t) /\ ~Patch!Stray(t)
      BY DEF Patch!Return, Patch!Nop, Patch!Stray
<1>4. Patch!SkipNop(t)
      BY <1>1, <1>2, <1>3 DEF Patch!Caller
<1> QED BY <1>4 DEF Patch!SkipNop, CallTypeInv, Patch!GoOn, HookingSame, Patch!hooking

LEMMA AtGoTo ==
    ASSUME CallTypeInv, NEW t \in Callers, caller[t] = "in", at_ip[t] # at.hook, NEW a,
           Patch!Byte(at_ip[t]) = Patch!GoTo(a), Patch!Caller(t)
    PROVE  /\ did'[t] = did[t] /\ when'[t] = when[t] /\ caller'[t] = "in"
           /\ at_ip'[t] = Patch!Resume(a) % Patch!Words
           /\ HookingSame
<1>1. ~Patch!CallIt(t) /\ ~Patch!RunHook(t)
      BY DEF Patch!CallIt, Patch!RunHook
<1>2. ~Patch!Execute(t) /\ ~Patch!TakeJump(t)
      BY DEF Patch!Execute, Patch!Original, Patch!GoTo, Patch!TakeJump, Patch!WholeJump, Patch!Jump
<1>3. ~Patch!SkipNop(t) /\ ~Patch!Stray(t)
      BY DEF Patch!SkipNop, Patch!Nop, Patch!GoTo, Patch!Stray
<1>4. Patch!Return(t)
      BY <1>1, <1>2, <1>3 DEF Patch!Caller
<1>5. Patch!Byte(at_ip[t])[2] = a
      BY DEF Patch!GoTo
<1>6. Patch!GoOn(t, Patch!Resume(a)) /\ caller' = caller /\ did' = did
      BY <1>4, <1>5 DEF Patch!Return
<1> QED BY <1>6 DEF CallTypeInv, Patch!GoOn, HookingSame, Patch!hooking

LEMMA AtHook ==
    ASSUME CallTypeInv, NEW t \in Callers, caller[t] = "in", at_ip[t] = at.hook, Patch!Caller(t)
    PROVE  /\ did'[t] = Append(did[t], -1) /\ when'[t] = when[t] /\ caller'[t] = "in"
           /\ at_ip'[t] = funcTramp % Patch!Words
           /\ HookingSame
<1>1. Patch!RunHook(t)
      BY DEF Patch!Caller, Patch!CallIt, Patch!Execute, Patch!TakeJump, Patch!SkipNop,
             Patch!Return, Patch!Stray
<1> QED BY <1>1 DEF Patch!RunHook, CallTypeInv, Patch!GoOn, HookingSame, Patch!hooking

-----------------------------------------------------------------------------
(* What is fetched.                                                        *)

LEMMA ByteOfFunction ==
    ASSUME MemoryInv, NEW m \in 0..Size - 1, NEW i \in 0..Size - 1, NEW a, a = FuncAt(m) + i - m
    PROVE  Patch!Byte(a) = Content(i)
<1>1. /\ at \in Layouts /\ Patch!Words \in Nat \ {0} /\ at.func \in Int /\ Size \in Nat
      /\ FuncAt(m) \in Int
      BY LayoutParts, WordsNat, BoundariesAscend, FuncAddress DEF MemoryInv, StageInv
<1>2. PICK x \in Int, y \in Int : x = at.func + m /\ y = i - m
      BY <1>1
<1>3. ((x % Patch!Words) + y) % Patch!Words = (x + y) % Patch!Words
      BY <1>1, ModAdd
<1>4. x + y = at.func + i /\ a = (x % Patch!Words) + y
      BY <1>1, <1>2 DEF FuncAt
<1>5. a % Patch!Words = FuncAt(i)
      BY <1>3, <1>4 DEF FuncAt
<1>6. Holds(FuncAt(i), Content(i))
      BY DEF MemoryInv, FunctionInv
<1> QED BY <1>5, <1>6 DEF Patch!Byte, Holds

LEMMA ByteOfTrampoline ==
    ASSUME MemoryInv, NEW m \in 0..TrampolineSize(at) - 1, NEW i \in 0..TrampolineSize(at) - 1,
           NEW a, a = TrampAt(m) + i - m, NEW b, Holds(TrampAt(i), b)
    PROVE  Patch!Byte(a) = b
<1>1. /\ at \in Layouts /\ Patch!Words \in Nat \ {0} /\ at.tramp \in Int /\ TrampolineSize(at) \in Nat
      /\ TrampAt(m) \in Int
      BY LayoutParts, WordsNat, TrampAddress DEF MemoryInv, StageInv, TrampolineSize
<1>2. PICK x \in Int, y \in Int : x = at.tramp + m /\ y = i - m
      BY <1>1
<1>3. ((x % Patch!Words) + y) % Patch!Words = (x + y) % Patch!Words
      BY <1>1, ModAdd
<1>4. x + y = at.tramp + i /\ a = (x % Patch!Words) + y
      BY <1>1, <1>2 DEF TrampAt
<1>5. a % Patch!Words = TrampAt(i)
      BY <1>3, <1>4 DEF TrampAt
<1> QED BY <1>5 DEF Patch!Byte, Holds

\* A step in the function, or in the trampoline.
LEMMA Onward ==
    ASSUME at \in Layouts, NEW m \in Int, NEW i \in Int
    PROVE  /\ (FuncAt(m) + i - m) % Patch!Words = FuncAt(i)
           /\ (TrampAt(m) + i - m) % Patch!Words = TrampAt(i)
<1>1. Patch!Words \in Nat \ {0} /\ at.func \in Int /\ at.tramp \in Int
      BY LayoutParts, WordsNat
<1>2. ASSUME NEW f \in Int
      PROVE  (((f + m) % Patch!Words) + i - m) % Patch!Words = (f + i) % Patch!Words
  <2>1. PICK x \in Int, y \in Int : x = f + m /\ y = i - m
        OBVIOUS
  <2>2. ((x % Patch!Words) + y) % Patch!Words = (x + y) % Patch!Words
        BY <1>1, ModAdd
  <2>3. x % Patch!Words \in Int
        BY <1>1, ModRange
  <2>4. x + y = f + i /\ (x % Patch!Words) + y = (x % Patch!Words) + i - m
        BY <2>1, <2>3
  <2> QED BY <2>1, <2>2, <2>4
<1> QED BY <1>1, <1>2 DEF FuncAt, TrampAt


-----------------------------------------------------------------------------
(* A call that HookFunc does not meet.                                     *)

\* No byte of the function is written yet.
Intact == Pristine \/ (stage = "jump" /\ todo = 0..Moved - 1)

\* Before instruction n, in the function.
BeforeAt(a, s) == \E n \in 1..Last : a = FuncAt(Boundaries[n]) /\ s = Before(n)

\* What comes next is instruction n: in the trampoline, on the way back, or in the function.
Rests(a, n) ==
    \/ Boundaries[n] <= Moved /\ a = TrampAt(Boundaries[n])
    \/ Boundaries[n] = Moved /\ \E i \in 5..Moved - 1 : a = FuncAt(i)
    \/ Boundaries[n] >= Moved /\ a = FuncAt(Boundaries[n])

AfterAt(a, s) ==
    \/ a \in {at.func, at.hook} /\ s = << >>
    \/ \E n \in 1..Last : s = Hooked(Before(n)) /\ Rests(a, n)

CallOK(t) ==
    /\ caller[t] = "out" => did[t] = << >>
    /\ when[t] # "during" =>
          /\ caller[t] # "lost"
          /\ caller[t] = "in" =>
                \/ when[t] = "before" /\ Intact /\ BeforeAt(at_ip[t], did[t])
                \/ when[t] = "after" /\ stage = "hooked" /\ AfterAt(at_ip[t], did[t])
          /\ caller[t] = "done" =>
                did[t] = IF when[t] = "after" THEN Hooked(Boundaries) ELSE Boundaries

\* An instruction of the function, in its place.
LEMMA InFunction ==
    ASSUME MemoryInv, CallTypeInv, NEW t \in Callers, caller[t] = "in", NEW n \in 1..Last,
           at_ip[t] = FuncAt(Boundaries[n]),
           \A i \in Boundaries[n] .. EndOf(n) - 1 : Content(i) = Patch!Original(i),
           Patch!Caller(t)
    PROVE  /\ did'[t] = Append(did[t], Boundaries[n]) /\ when'[t] = when[t]
           /\ caller'[t] = IF n = Last THEN "done" ELSE "in"
           /\ at_ip'[t] = FuncAt(EndOf(n)) /\ HookingSame
<1>1. at \in Layouts
      BY DEF MemoryInv, StageInv
<1>2. PICK m \in 0..Size - 1 : m = Boundaries[n]
      BY BoundariesAscend
<1>3. PICK e \in m + 1 .. Size : e = EndOf(n)
      BY <1>2, EndIs
<1>4. Size \in Nat \ {0} /\ FuncAt(m) \in Int /\ FuncAt(m) # at.hook
      BY <1>1, BoundariesAscend, FuncAddress, WordsNat
<1>5. ASSUME NEW i \in m .. e - 1 PROVE Patch!Byte(at_ip[t] + i - m) = Patch!Original(i)
  <2>1. i \in 0..Size - 1
        BY <1>4
  <2>2. PICK a : a = FuncAt(m) + i - m
        OBVIOUS
  <2>3. Patch!Byte(a) = Content(i)
        BY <2>1, <2>2, ByteOfFunction
  <2> QED BY <1>2, <1>3, <2>2, <2>3
<1>6. Patch!Byte(at_ip[t]) = Patch!Original(m)
  <2>1. at_ip[t] + m - m = at_ip[t] /\ m \in m .. e - 1
        BY <1>2, <1>4
  <2> QED BY <1>5, <2>1
<1>7. /\ did'[t] = Append(did[t], m) /\ when'[t] = when[t]
      /\ caller'[t] = IF n = Last THEN "done" ELSE "in"
      /\ at_ip'[t] = (at_ip[t] + e - m) % Patch!Words
      /\ HookingSame
      BY <1>2, <1>3, <1>4, <1>5, <1>6, AtInstruction
<1>8. (FuncAt(m) + e - m) % Patch!Words = FuncAt(e)
      BY <1>1, <1>4, Onward
<1> QED BY <1>2, <1>3, <1>7, <1>8

\* An instruction of the function, in the trampoline.
LEMMA InTrampoline ==
    ASSUME MemoryInv, CallTypeInv, NEW t \in Callers, caller[t] = "in", NEW n \in 1..Last,
           at_ip[t] = TrampAt(Boundaries[n]), Boundaries[n] < Moved, stage = "hooked",
           Patch!Caller(t)
    PROVE  /\ n + 1 \in 1..Last /\ Boundaries[n + 1] <= Moved
           /\ did'[t] = Append(did[t], Boundaries[n]) /\ when'[t] = when[t]
           /\ caller'[t] = "in" /\ at_ip'[t] = TrampAt(Boundaries[n + 1]) /\ HookingSame
<1>1. at \in Layouts
      BY DEF MemoryInv, StageInv
<1>2. PICK m \in 0..Size - 1 : m = Boundaries[n]
      BY BoundariesAscend
<1>3. PICK l \in 1..Last : Boundaries[l] = Moved
      BY <1>1, LayoutParts, BoundariesAscend
<1>4. /\ Last \in Nat \ {0} /\ Size \in Nat \ {0}
      /\ \A j \in 1..Last : Boundaries[j] \in 0..Size - 1
      /\ \A i, j \in 1..Last : i < j => Boundaries[i] < Boundaries[j]
      BY BoundariesAscend
<1>5. n < l
  <2>1. ~(l < n) /\ l # n
        BY <1>3, <1>4
  <2> QED BY <1>4, <2>1
<1>6. n + 1 \in 1..Last /\ n # Last /\ (n + 1 = l \/ n + 1 < l)
      BY <1>4, <1>5
<1>7. Boundaries[n + 1] <= Moved /\ EndOf(n) = Boundaries[n + 1]
  <2>1. Boundaries[n + 1] = Boundaries[l] \/ Boundaries[n + 1] < Boundaries[l]
        BY <1>4, <1>6
  <2>2. Boundaries[n + 1] \in 0..Size - 1 /\ Boundaries[l] \in 0..Size - 1
        BY <1>4, <1>6
  <2> QED BY <1>3, <1>4, <1>6, <2>1, <2>2 DEF EndOf
<1>8. PICK e \in m + 1 .. Size : e = EndOf(n)
      BY <1>2, EndIs
<1>9. /\ at.x64 \in BOOLEAN
      /\ at.x64 => Moved = 10 /\ TrampolineSize(at) = 11
      /\ ~at.x64 => Moved = 5 /\ TrampolineSize(at) = 10
      BY <1>1, LayoutParts
<1>10. /\ m \in 0..TrampolineSize(at) - 1 /\ m .. e - 1 \subseteq 0..Moved - 1
       /\ m .. e - 1 \subseteq 0..TrampolineSize(at) - 1 /\ m \in m .. e - 1
      BY <1>2, <1>4, <1>7, <1>8, <1>9
<1>11. TrampAt(m) \in Int /\ TrampAt(m) # at.hook
      BY <1>1, <1>10, TrampAddress, WordsNat
<1>12. TrampBuilt
      BY <1>9 DEF MemoryInv, TrampInv
<1>13. ASSUME NEW i \in m .. e - 1 PROVE Patch!Byte(at_ip[t] + i - m) = Patch!Original(i)
  <2>1. i \in 0..TrampolineSize(at) - 1 /\ i \in 0..Moved - 1
        BY <1>10
  <2>2. PICK b : b = Patch!Original(i) /\ Holds(TrampAt(i), b)
        BY <1>12, <2>1 DEF TrampBuilt
  <2>3. PICK a : a = TrampAt(m) + i - m
        OBVIOUS
  <2>4. Patch!Byte(a) = b
        BY <1>10, <2>1, <2>2, <2>3, ByteOfTrampoline
  <2> QED BY <1>2, <2>2, <2>3, <2>4
<1>14. Patch!Byte(at_ip[t]) = Patch!Original(m)
  <2>1. at_ip[t] + m - m = at_ip[t]
        BY <1>2, <1>11
  <2> QED BY <1>10, <1>13, <2>1
<1>15. /\ did'[t] = Append(did[t], m) /\ when'[t] = when[t]
       /\ caller'[t] = IF n = Last THEN "done" ELSE "in"
       /\ at_ip'[t] = (at_ip[t] + e - m) % Patch!Words
       /\ HookingSame
      BY <1>2, <1>8, <1>11, <1>13, <1>14, AtInstruction
<1>16. (TrampAt(m) + e - m) % Patch!Words = TrampAt(e)
  <2>1. m \in Int /\ e \in Int
        BY <1>4
  <2> QED BY <1>1, <2>1, Onward
<1> QED BY <1>2, <1>6, <1>7, <1>8, <1>15, <1>16

\* The jump that HookFunc wrote over the function leads to the hook.
LEMMA ToTheHook ==
    ASSUME MemoryInv, CallTypeInv, Patch!Near, NEW t \in Callers, caller[t] = "in",
           at_ip[t] = at.func, stage = "hooked", Patch!Caller(t)
    PROVE  /\ did'[t] = did[t] /\ when'[t] = when[t] /\ caller'[t] = "in"
           /\ at_ip'[t] = at.hook /\ HookingSame
<1>1. /\ at \in Layouts /\ at.func \in 0..Patch!Words - 1 /\ at.hook \in 0..Patch!Words - 1
      /\ Patch!Words \in Nat \ {0} /\ at.x64 \in BOOLEAN /\ Moved \in {5, 10} /\ Moved <= Size - 1
      /\ Size \in Nat \ {0}
      BY LayoutParts, WordsNat, BoundariesAscend DEF MemoryInv, StageInv
<1>2. FuncAt(0) = at.func /\ at.func # at.hook
  <2>1. 0 \in 0..Size - 1
        BY <1>1
  <2> QED BY <1>1, <2>1, FuncStart, FuncAddress
<1>3. PICK d : d = (at.hook - at.func - 5) % (IF at.x64 THEN Half ELSE Patch!Words)
      OBVIOUS
<1>4. Patch!ProxyCode[1] = Patch!Jump /\ \A i \in 1..4 : Patch!ProxyCode[i + 1] = Patch!Distance(d, i)
      BY <1>3, JumpBytes DEF Patch!ProxyCode
<1>5. ASSUME NEW i \in 0..4 PROVE Patch!Byte(at_ip[t] + i) = Patch!ProxyCode[i + 1]
  <2>1. PICK a : a = FuncAt(0) + i - 0
        OBVIOUS
  <2>2. 0 \in 0..Size - 1 /\ i \in 0..Size - 1 /\ ~(i >= Moved)
        BY <1>1
  <2>3. Patch!Byte(a) = Content(i)
        BY <2>1, <2>2, ByteOfFunction
  <2>4. Content(i) = Patch!ProxyCode[i + 1]
        BY <2>2 DEF Content, Pristine, New
  <2>5. a = at_ip[t] + i
        BY <1>1, <1>2, <2>1
  <2> QED BY <2>3, <2>4, <2>5
<1>6. Patch!Byte(at_ip[t]) = Patch!Jump
  <2>1. at_ip[t] + 0 = at_ip[t] /\ 0 + 1 = 1
        BY <1>1
  <2> QED BY <1>4, <1>5, <2>1
<1>7. \A i \in 1..4 : Patch!Byte(at_ip[t] + i) = Patch!Distance(d, i)
      BY <1>4, <1>5
<1>8. /\ did'[t] = did[t] /\ when'[t] = when[t] /\ caller'[t] = "in"
      /\ at_ip'[t] = (at_ip[t] + 5 + Patch!Signed(d)) % Patch!Words
      /\ HookingSame
      BY <1>2, <1>6, <1>7, AtJump
<1>9. PICK a \in Int, e \in Int : a = at_ip[t] + 5 /\ e = at.hook - at.func - 5
      BY <1>1
<1>10. (a + Patch!Signed(d)) % Patch!Words = (a + e) % Patch!Words
  <2>1. CASE at.x64
        BY <1>1, <1>3, <1>9, <2>1, SignedNear
  <2>2. CASE ~at.x64
        BY <1>1, <1>3, <1>9, <2>2, SignedJump
  <2> QED BY <1>1, <2>1, <2>2
<1>11. a + e = at.hook /\ at.hook % Patch!Words = at.hook
  <2>1. a + e = at.hook
        BY <1>1, <1>9
  <2> QED BY <1>1, <2>1, ModSmall
<1> QED BY <1>8, <1>9, <1>10, <1>11

\* The way back from the trampoline leads behind the jump.
LEMMA BackToTheFunction ==
    ASSUME MemoryInv, CallTypeInv, NEW t \in Callers, caller[t] = "in",
           at_ip[t] = TrampAt(Moved), stage = "hooked", Patch!Caller(t)
    PROVE  /\ did'[t] = did[t] /\ when'[t] = when[t] /\ caller'[t] = "in"
           /\ at_ip'[t] = FuncAt(5) /\ HookingSame
<1>1. /\ at \in Layouts /\ at.func \in 0..Patch!Words - 1 /\ at.tramp \in 0..Patch!Words - 1
      /\ Patch!Words \in Nat \ {0} /\ at.x64 \in BOOLEAN
      /\ at.x64 => Moved = 10 /\ TrampolineSize(at) = 11
      /\ ~at.x64 => Moved = 5 /\ TrampolineSize(at) = 10
      /\ Moved <= Size - 1 /\ Size \in Nat \ {0}
      BY LayoutParts, WordsNat, BoundariesAscend DEF MemoryInv, StageInv
<1>2. Moved \in 0..TrampolineSize(at) - 1 /\ 5 \in 0..Size - 1
      BY <1>1
<1>3. TrampAt(Moved) \in Int /\ TrampAt(Moved) # at.hook /\ FuncAt(5) \in 0..Patch!Words - 1
      BY <1>1, <1>2, TrampAddress, FuncAddress
<1>4. TrampBuilt
      BY <1>1 DEF MemoryInv, TrampInv
<1>5. ASSUME NEW i \in 0..TrampolineSize(at) - 1 - Moved, NEW b, Holds(TrampAt(Moved + i), b)
      PROVE  Patch!Byte(at_ip[t] + i) = b
  <2>1. PICK j \in 0..TrampolineSize(at) - 1 : j = Moved + i
        BY <1>1, <1>5
  <2>2. PICK a : a = TrampAt(Moved) + j - Moved
        OBVIOUS
  <2>3. Patch!Byte(a) = b
        BY <1>2, <1>5, <2>1, <2>2, ByteOfTrampoline
  <2>4. a = at_ip[t] + i
        BY <1>1, <1>3, <2>1, <2>2
  <2> QED BY <2>3, <2>4
<1>6. at_ip[t] + 0 = at_ip[t]
      BY <1>3
<1>7. CASE at.x64
  <2>1. PICK b : b = Patch!GoTo(FuncAt(5)) /\ Holds(TrampAt(10), b)
        BY <1>4, <1>7 DEF TrampBuilt
  <2>2. 0 \in 0..TrampolineSize(at) - 1 - Moved /\ Moved + 0 = 10
        BY <1>1, <1>7
  <2>3. Patch!Byte(at_ip[t]) = Patch!GoTo(FuncAt(5))
        BY <1>5, <1>6, <2>1, <2>2
  <2>4. /\ did'[t] = did[t] /\ when'[t] = when[t] /\ caller'[t] = "in"
        /\ at_ip'[t] = Patch!Resume(FuncAt(5)) % Patch!Words /\ HookingSame
        BY <1>3, <2>3, AtGoTo
  <2>5. FuncAt(5) \in Nat
        BY <1>1, <1>3
  <2>6. Patch!Resume(FuncAt(5)) = FuncAt(5)
        BY <2>5, ResumeGoesOn
  <2>7. FuncAt(5) % Patch!Words = FuncAt(5)
        BY <1>1, <1>3, <2>5, ModSmall
  <2> QED BY <2>4, <2>6, <2>7
<1>8. CASE ~at.x64
  <2>1. PICK d : d = (at.func - at.tramp - 5) % Patch!Words
        OBVIOUS
  <2>2. Holds(TrampAt(5), Patch!Jump) /\ \A i \in 1..4 : Holds(TrampAt(5 + i), Patch!Distance(d, i))
        BY <1>4, <1>8, <2>1 DEF TrampBuilt
  <2>3. Moved = 5 /\ 0..TrampolineSize(at) - 1 - Moved = 0..4
        BY <1>1, <1>8
  <2>4. Patch!Byte(at_ip[t]) = Patch!Jump
    <3>1. Holds(TrampAt(Moved + 0), Patch!Jump) /\ 0 \in 0..TrampolineSize(at) - 1 - Moved
          BY <2>2, <2>3
    <3> QED BY <1>5, <1>6, <3>1
  <2>5. ASSUME NEW i \in 1..4 PROVE Patch!Byte(at_ip[t] + i) = Patch!Distance(d, i)
    <3>1. Holds(TrampAt(Moved + i), Patch!Distance(d, i)) /\ i \in 0..TrampolineSize(at) - 1 - Moved
          BY <2>2, <2>3
    <3> QED BY <1>5, <3>1
  <2>6. /\ did'[t] = did[t] /\ when'[t] = when[t] /\ caller'[t] = "in"
        /\ at_ip'[t] = (at_ip[t] + 5 + Patch!Signed(d)) % Patch!Words /\ HookingSame
        BY <1>3, <2>4, <2>5, AtJump
  <2>7. PICK a \in Int, e \in Int : a = TrampAt(5) + 5 /\ e = at.func - at.tramp - 5
        BY <1>1, <1>3, <2>3
  <2>8. (a + Patch!Signed(d)) % Patch!Words = (a + e) % Patch!Words
        BY <1>1, <1>8, <2>1, <2>7, SignedJump
  <2>9. PICK x \in Int, y \in Int : x = at.tramp + 5 /\ y = at.func - at.tramp
        BY <1>1
  <2>10. ((x % Patch!Words) + y) % Patch!Words = (x + y) % Patch!Words
        BY <1>1, ModAdd
  <2>11. x + y = at.func + 5 /\ (x % Patch!Words) + y = a + e
        BY <1>1, <1>3, <2>3, <2>7, <2>9 DEF TrampAt
  <2>12. (a + e) % Patch!Words = FuncAt(5)
        BY <2>10, <2>11 DEF FuncAt
  <2> QED BY <2>3, <2>6, <2>7, <2>8, <2>12
<1> QED BY <1>1, <1>7, <1>8

\* The nops behind the jump lead to the instruction behind the moved bytes.
LEMMA OverTheNops ==
    ASSUME MemoryInv, CallTypeInv, NEW t \in Callers, caller[t] = "in",
           NEW i \in 5..Moved - 1, at_ip[t] = FuncAt(i), stage = "hooked", Patch!Caller(t)
    PROVE  /\ did'[t] = did[t] /\ when'[t] = when[t] /\ caller'[t] = "in"
           /\ at_ip'[t] = FuncAt(i + 1) /\ HookingSame
<1>1. /\ at \in Layouts /\ Moved \in {5, 10} /\ Moved <= Size - 1 /\ Size \in Nat \ {0}
      /\ Patch!Words \in Nat \ {0}
      BY LayoutParts, BoundariesAscend, WordsNat DEF MemoryInv, StageInv
<1>2. i \in 0..Size - 1 /\ i \in Int /\ i + 1 \in Int /\ ~(i >= Moved) /\ ~(i < 5)
      BY <1>1
<1>3. FuncAt(i) \in Int /\ FuncAt(i) # at.hook
      BY <1>1, <1>2, FuncAddress
<1>4. Patch!Byte(at_ip[t]) = Patch!Nop
  <2>1. PICK a : a = FuncAt(i) + i - i
        OBVIOUS
  <2>2. Patch!Byte(a) = Content(i)
        BY <1>2, <2>1, ByteOfFunction
  <2>3. Content(i) = Patch!Nop
        BY <1>2 DEF Content, Pristine, New
  <2>4. a = at_ip[t]
        BY <1>2, <1>3, <2>1
  <2> QED BY <2>2, <2>3, <2>4
<1>5. /\ did'[t] = did[t] /\ when'[t] = when[t] /\ caller'[t] = "in"
      /\ at_ip'[t] = (at_ip[t] + 1) % Patch!Words /\ HookingSame
      BY <1>3, <1>4, AtNop
<1>6. FuncAt(i) + (i + 1) - i = FuncAt(i) + 1
      BY <1>2, <1>3
<1>7. (FuncAt(i) + (i + 1) - i) % Patch!Words = FuncAt(i + 1)
      BY <1>1, <1>2, Onward
<1> QED BY <1>5, <1>6, <1>7

\* Before HookFunc wrote a byte, a call runs the function as it was.
LEMMA StepBefore ==
    ASSUME MemoryInv, CallTypeInv, NEW t \in Callers, caller[t] = "in", Intact,
           BeforeAt(at_ip[t], did[t]), Patch!Caller(t)
    PROVE  /\ when'[t] = when[t] /\ HookingSame
           /\ \/ caller'[t] = "in" /\ BeforeAt(at_ip'[t], did'[t])
              \/ caller'[t] = "done" /\ did'[t] = Boundaries
<1>1. PICK n \in 1..Last : at_ip[t] = FuncAt(Boundaries[n]) /\ did[t] = Before(n)
      BY DEF BeforeAt
<1>2. ASSUME NEW i \in Boundaries[n] .. EndOf(n) - 1 PROVE Content(i) = Patch!Original(i)
  <2>1. Moved \in {5, 10}
        BY LayoutParts DEF MemoryInv, StageInv
  <2>2. Boundaries[n] \in 0..Size - 1 /\ Size \in Nat \ {0}
        BY BoundariesAscend
  <2>3. i \in Nat
        BY <2>2
  <2>4. i >= Moved \/ i \in 0..Moved - 1
        BY <2>1, <2>3
  <2> QED BY <2>4 DEF Intact, Content
<1>3. /\ did'[t] = Append(did[t], Boundaries[n]) /\ when'[t] = when[t]
      /\ caller'[t] = IF n = Last THEN "done" ELSE "in"
      /\ at_ip'[t] = FuncAt(EndOf(n)) /\ HookingSame
      BY <1>1, <1>2, InFunction
<1>4. did'[t] = Before(n + 1)
      BY <1>1, <1>3, BeforeGrows
<1>5. CASE n = Last
      BY <1>3, <1>4, <1>5, BeforeGrows
<1>6. CASE n # Last
  <2>1. n + 1 \in 1..Last
        BY <1>6, BoundariesAscend
  <2>2. at_ip'[t] = FuncAt(Boundaries[n + 1])
        BY <1>3, <1>6 DEF EndOf
  <2> QED BY <1>3, <1>4, <1>6, <2>1, <2>2 DEF BeforeAt
<1> QED BY <1>5, <1>6

\* Once the function is hooked, a call runs the hook and then every instruction.
LEMMA StepAfter ==
    ASSUME MemoryInv, CallTypeInv, Patch!Near, NEW t \in Callers, caller[t] = "in",
           stage = "hooked", AfterAt(at_ip[t], did[t]), Patch!Caller(t)
    PROVE  /\ when'[t] = when[t] /\ HookingSame
           /\ \/ caller'[t] = "in" /\ AfterAt(at_ip'[t], did'[t])
              \/ caller'[t] = "done" /\ did'[t] = Hooked(Boundaries)
<1>1. /\ at \in Layouts /\ Moved \in {5, 10} /\ (~at.x64 => Moved = 5)
      /\ Last \in Nat \ {0} /\ Boundaries[1] = 0
      /\ \A n \in 1..Last : Boundaries[n] \in Int
      BY LayoutParts, BoundariesAscend DEF MemoryInv, StageInv
<1>2. CASE at_ip[t] = at.func /\ did[t] = << >>
      BY <1>2, ToTheHook DEF AfterAt
<1>3. CASE at_ip[t] = at.hook /\ did[t] = << >>
  <2>1. /\ did'[t] = Append(<< >>, -1) /\ when'[t] = when[t] /\ caller'[t] = "in"
        /\ at_ip'[t] = funcTramp % Patch!Words /\ HookingSame
        BY <1>3, AtHook
  <2>2. funcTramp = at.tramp /\ at.tramp + 0 = at.tramp
        BY LayoutParts, WordsNat DEF MemoryInv, StageInv, AllocInv
  <2>3. at_ip'[t] = TrampAt(Boundaries[1])
        BY <1>1, <2>1, <2>2 DEF TrampAt
  <2>4. did'[t] = Hooked(Before(1))
        BY <2>1, HookedGrows, BeforeGrows
  <2>5. Rests(at_ip'[t], 1)
        BY <1>1, <2>3 DEF Rests
  <2>6. 1 \in 1..Last
        BY <1>1
  <2> QED BY <2>1, <2>4, <2>5, <2>6 DEF AfterAt
<1>4. ASSUME NEW n \in 1..Last, did[t] = Hooked(Before(n)), Rests(at_ip[t], n)
      PROVE  /\ when'[t] = when[t] /\ HookingSame
             /\ \/ caller'[t] = "in" /\ AfterAt(at_ip'[t], did'[t])
                \/ caller'[t] = "done" /\ did'[t] = Hooked(Boundaries)
  <2>1. Append(did[t], Boundaries[n]) = Hooked(Before(n + 1))
    <3>1. Before(n) \in Seq(Int) /\ Append(Before(n), Boundaries[n]) = Before(n + 1) /\ Boundaries[n] \in Int
          BY <1>1, BeforeGrows
    <3> QED BY <1>4, <3>1, HookedGrows
  <2>2. CASE Boundaries[n] < Moved /\ at_ip[t] = TrampAt(Boundaries[n])
    <3>1. /\ n + 1 \in 1..Last /\ Boundaries[n + 1] <= Moved
          /\ did'[t] = Append(did[t], Boundaries[n]) /\ when'[t] = when[t]
          /\ caller'[t] = "in" /\ at_ip'[t] = TrampAt(Boundaries[n + 1]) /\ HookingSame
          BY <2>2, InTrampoline
    <3>2. Rests(at_ip'[t], n + 1)
          BY <3>1 DEF Rests
    <3> QED BY <2>1, <3>1, <3>2 DEF AfterAt
  <2>3. CASE Boundaries[n] = Moved /\ at_ip[t] = TrampAt(Boundaries[n])
    <3>1. /\ did'[t] = did[t] /\ when'[t] = when[t] /\ caller'[t] = "in"
          /\ at_ip'[t] = FuncAt(5) /\ HookingSame
          BY <2>3, BackToTheFunction
    <3>2. Rests(at_ip'[t], n)
      <4>1. CASE Moved = 5
            BY <2>3, <3>1, <4>1 DEF Rests
      <4>2. CASE Moved = 10
        <5>1. 5 \in 5..Moved - 1
              BY <4>2
        <5> QED BY <2>3, <3>1, <5>1 DEF Rests
      <4> QED BY <1>1, <4>1, <4>2
    <3> QED BY <1>4, <3>1, <3>2 DEF AfterAt
  <2>4. ASSUME Boundaries[n] = Moved, NEW i \in 5..Moved - 1, at_ip[t] = FuncAt(i)
        PROVE  /\ when'[t] = when[t] /\ HookingSame
               /\ caller'[t] = "in" /\ AfterAt(at_ip'[t], did'[t])
    <3>1. /\ did'[t] = did[t] /\ when'[t] = when[t] /\ caller'[t] = "in"
          /\ at_ip'[t] = FuncAt(i + 1) /\ HookingSame
          BY <2>4, OverTheNops
    <3>2. i + 1 \in 5..Moved - 1 \/ i + 1 = Moved
          BY <1>1
    <3>3. Rests(at_ip'[t], n)
      <4>1. PICK j : j = i + 1
            OBVIOUS
      <4>2. j \in 5..Moved - 1 \/ j = Boundaries[n]
            BY <2>4, <3>2, <4>1
      <4>3. at_ip'[t] = FuncAt(j) /\ Boundaries[n] >= Moved
            BY <1>1, <2>4, <3>1, <4>1
      <4> QED BY <2>4, <4>2, <4>3 DEF Rests
    <3> QED BY <1>4, <3>1, <3>3 DEF AfterAt
  <2>5. CASE Boundaries[n] >= Moved /\ at_ip[t] = FuncAt(Boundaries[n])
    <3>1. ASSUME NEW i \in Boundaries[n] .. EndOf(n) - 1 PROVE Content(i) = Patch!Original(i)
      <4>1. i >= Moved
            BY <1>1, <2>5
      <4> QED BY <4>1 DEF Content
    <3>2. /\ did'[t] = Append(did[t], Boundaries[n]) /\ when'[t] = when[t]
          /\ caller'[t] = IF n = Last THEN "done" ELSE "in"
          /\ at_ip'[t] = FuncAt(EndOf(n)) /\ HookingSame
          BY <2>5, <3>1, InFunction
    <3>3. CASE n = Last
          BY <2>1, <3>2, <3>3, BeforeGrows
    <3>4. CASE n # Last
      <4>1. n + 1 \in 1..Last /\ n < n + 1
            BY <3>4, BoundariesAscend
      <4>2. Boundaries[n + 1] >= Moved
        <5>1. Boundaries[n] < Boundaries[n + 1] /\ Boundaries[n] \in Int /\ Boundaries[n + 1] \in Int
              BY <4>1, BoundariesAscend
        <5> QED BY <1>1, <2>5, <5>1
      <4>3. at_ip'[t] = FuncAt(Boundaries[n + 1])
            BY <3>2, <3>4 DEF EndOf
      <4>4. Rests(at_ip'[t], n + 1)
            BY <4>2, <4>3 DEF Rests
      <4> QED BY <2>1, <3>2, <3>4, <4>1, <4>4 DEF AfterAt
    <3> QED BY <3>3, <3>4
  <2>6. Boundaries[n] < Moved \/ Boundaries[n] = Moved \/ ~(Boundaries[n] <= Moved)
        BY <1>1
  <2> QED BY <1>4, <2>2, <2>3, <2>4, <2>5, <2>6 DEF Rests
<1> QED BY <1>2, <1>3, <1>4 DEF AfterAt

-----------------------------------------------------------------------------
(* HookFunc and every caller.                                              *)

PatchInv == MemoryInv /\ CallTypeInv /\ (Patch!Near => \A t \in Callers : CallOK(t))

LEMMA CallTypeInit == Patch!Init => CallTypeInv /\ \A t \in Callers : CallOK(t)
<1> SUFFICES ASSUME Patch!Init PROVE CallTypeInv /\ \A t \in Callers : CallOK(t)
    OBVIOUS
<1>1. /\ caller = [t \in Callers |-> "out"] /\ at_ip = [t \in Callers |-> 0]
      /\ did = [t \in Callers |-> << >>] /\ when = [t \in Callers |-> "before"]
      BY DEF Patch!Init
<1>2. did \in [Callers -> Seq(Int)]
  <2>1. << >> \in Seq(Int)
        BY EmptySeq
  <2> QED BY <1>1, <2>1
<1> QED BY <1>1, <1>2 DEF CallTypeInv, CallOK

\* A caller's step is its own.
LEMMA CallerFrame ==
    ASSUME CallTypeInv, NEW t \in Callers, Patch!Caller(t)
    PROVE  /\ HookingSame /\ CallTypeInv'
           /\ \A u \in Callers \ {t} :
                 caller'[u] = caller[u] /\ at_ip'[u] = at_ip[u] /\ did'[u] = did[u] /\ when'[u] = when[u]
<1>1. \A k \in Patch!Starts : k \in Int
      BY BoundariesAscend
<1>2. did[t] \in Seq(Int) /\ -1 \in Int
      BY DEF CallTypeInv
<1>3. CASE Patch!CallIt(t)
      BY <1>3 DEF Patch!CallIt, CallTypeInv, HookingSame, Patch!hooking
<1>4. CASE Patch!Execute(t)
  <2>1. PICK k \in Patch!Starts :
           /\ did' = [did EXCEPT ![t] = Append(@, k)]
           /\ caller' = [caller EXCEPT ![t] = IF Patch!End(k) = Size THEN "done" ELSE @]
           /\ Patch!GoOn(t, at_ip[t] + Patch!End(k) - k)
        BY <1>4 DEF Patch!Execute
  <2>2. Append(did[t], k) \in Seq(Int)
        BY <1>1, <1>2, AppendProperties
  <2> QED BY <2>1, <2>2 DEF CallTypeInv, Patch!GoOn, HookingSame, Patch!hooking
<1>5. CASE Patch!RunHook(t)
  <2>1. Append(did[t], -1) \in Seq(Int)
        BY <1>2, AppendProperties
  <2> QED BY <1>5, <2>1 DEF Patch!RunHook, CallTypeInv, Patch!GoOn, HookingSame, Patch!hooking
<1>6. CASE Patch!TakeJump(t) \/ Patch!SkipNop(t) \/ Patch!Return(t) \/ Patch!Stray(t)
  <2>1. PICK a : Patch!GoOn(t, a) /\ did' = did
                 /\ (caller' = caller \/ caller' = [caller EXCEPT ![t] = "lost"])
        BY <1>6 DEF Patch!TakeJump, Patch!SkipNop, Patch!Return, Patch!Stray
  <2> QED BY <2>1 DEF CallTypeInv, Patch!GoOn, HookingSame, Patch!hooking
<1> QED BY <1>3, <1>4, <1>5, <1>6 DEF Patch!Caller

\* What is said of memory, and of a call, is about these variables.
LEMMA HookingKept ==
    ASSUME HookingSame
    PROVE  /\ MemoryInv => MemoryInv'
           /\ Intact' = Intact
           /\ \A a, s : BeforeAt(a, s)' = BeforeAt(a, s) /\ AfterAt(a, s)' = AfterAt(a, s)
<1>1. /\ at' = at /\ memory' = memory /\ funcTramp' = funcTramp /\ stage' = stage /\ todo' = todo
      /\ saved' = saved
      BY DEF HookingSame
<1>2. \A k : FuncAt(k)' = FuncAt(k) /\ TrampAt(k)' = TrampAt(k)
      BY <1>1 DEF FuncAt, TrampAt
<1>3. Moved' = Moved /\ Patch!ProxyCode' = Patch!ProxyCode
      BY <1>1, LayoutStays
<1>4. Pristine' = Pristine /\ Intact' = Intact
      BY <1>1, <1>3 DEF Pristine, Intact
<1>5. \A k : Content(k)' = Content(k)
      BY <1>1, <1>3, <1>4 DEF Content, New, Patch!Original, Patch!Garbage, Patch!Nop
<1>6. ASSUME MemoryInv PROVE MemoryInv'
  <2>1. StageInv' /\ TodoInv' /\ AllocInv'
        BY <1>1, <1>3, <1>6 DEF MemoryInv, StageInv, TodoInv, AllocInv
  <2>2. SavedInv'
        BY <1>1, <1>3, <1>6 DEF MemoryInv, SavedInv, Patch!Original
  <2>3. FunctionInv'
        BY <1>1, <1>5, <1>6, FunctionKept DEF MemoryInv
  <2>4. TrampInv'
        BY <1>1, <1>6, TrampKept DEF MemoryInv, StageInv, TrampInv
  <2> QED BY <2>1, <2>2, <2>3, <2>4 DEF MemoryInv
<1>7. \A a, s : BeforeAt(a, s)' = BeforeAt(a, s) /\ AfterAt(a, s)' = AfterAt(a, s)
  <2>1. \A a, n : Rests(a, n)' = Rests(a, n)
        BY <1>2, <1>3 DEF Rests
  <2> QED BY <1>1, <1>2, <2>1 DEF BeforeAt, AfterAt
<1> QED BY <1>4, <1>6, <1>7

\* A caller's step keeps what is said of every call.
LEMMA CallerStep ==
    ASSUME MemoryInv, CallTypeInv, Patch!Near, \A u \in Callers : CallOK(u),
           NEW t \in Callers, Patch!Caller(t), NEW u \in Callers
    PROVE  CallOK(u)'
<1>1. HookingSame /\ CallTypeInv' /\ stage' = stage /\ at' = at
      BY CallerFrame DEF HookingSame
<1>2. /\ Intact' = Intact
      /\ \A a, s : BeforeAt(a, s)' = BeforeAt(a, s) /\ AfterAt(a, s)' = AfterAt(a, s)
      BY <1>1, HookingKept
<1>3. CASE u # t
  <2>1. caller'[u] = caller[u] /\ at_ip'[u] = at_ip[u] /\ did'[u] = did[u] /\ when'[u] = when[u]
        BY <1>3, CallerFrame
  <2> QED BY <1>1, <1>2, <2>1 DEF CallOK
<1>4. CASE u = t /\ caller[t] = "out"
  <2>1. Patch!CallIt(t)
        BY <1>4 DEF Patch!Caller, Patch!Execute, Patch!TakeJump, Patch!SkipNop, Patch!Return,
                    Patch!RunHook, Patch!Stray
  <2>2. /\ caller'[t] = "in" /\ at_ip'[t] = at.func /\ did'[t] = << >>
        /\ when'[t] = IF Patch!Busy THEN "during" ELSE IF stage = "hooked" THEN "after" ELSE "before"
        BY <1>4, <2>1 DEF Patch!CallIt, CallTypeInv, CallOK
  <2>3. CASE Patch!Busy
        BY <1>4, <2>2, <2>3 DEF CallOK
  <2>4. CASE ~Patch!Busy /\ stage = "hooked"
    <3>1. AfterAt(at.func, << >>)
          BY DEF AfterAt
    <3> QED BY <1>1, <1>2, <1>4, <2>2, <2>4, <3>1 DEF CallOK
  <2>5. CASE ~Patch!Busy /\ stage # "hooked"
    <3>1. Intact
          BY <2>5 DEF Intact, Pristine, Patch!Busy, MemoryInv, StageInv
    <3>2. BeforeAt(at.func, << >>)
      <4>1. 1 \in 1..Last /\ Boundaries[1] = 0
            BY BoundariesAscend
      <4>2. at.func = FuncAt(Boundaries[1])
            BY <4>1, FuncStart DEF MemoryInv, StageInv
      <4> QED BY <4>1, <4>2, BeforeGrows DEF BeforeAt
    <3> QED BY <1>2, <1>4, <2>2, <2>5, <3>1, <3>2 DEF CallOK
  <2> QED BY <2>3, <2>4, <2>5
<1>5. CASE u = t /\ caller[t] = "in"
  <2>1. CASE when[t] = "during"
    <3>1. when'[t] = "during" /\ caller'[t] # "out"
          BY <1>5, <2>1 DEF Patch!Caller, Patch!CallIt, Patch!Execute, Patch!TakeJump, Patch!SkipNop,
                      Patch!Return, Patch!RunHook, Patch!Stray, Patch!GoOn, CallTypeInv
    <3> QED BY <1>5, <3>1 DEF CallOK
  <2>2. CASE when[t] = "before" /\ Intact /\ BeforeAt(at_ip[t], did[t])
    <3>1. /\ when'[t] = when[t]
          /\ \/ caller'[t] = "in" /\ BeforeAt(at_ip'[t], did'[t])
             \/ caller'[t] = "done" /\ did'[t] = Boundaries
          BY <1>5, <2>2, StepBefore
    <3> QED BY <1>2, <1>5, <2>2, <3>1 DEF CallOK
  <2>3. CASE when[t] = "after" /\ stage = "hooked" /\ AfterAt(at_ip[t], did[t])
    <3>1. /\ when'[t] = when[t]
          /\ \/ caller'[t] = "in" /\ AfterAt(at_ip'[t], did'[t])
             \/ caller'[t] = "done" /\ did'[t] = Hooked(Boundaries)
          BY <1>5, <2>3, StepAfter
    <3> QED BY <1>1, <1>2, <1>5, <2>3, <3>1 DEF CallOK
  <2> QED BY <1>5, <2>1, <2>2, <2>3 DEF CallOK
<1>6. CASE u = t /\ caller[t] \in {"done", "lost"}
      BY <1>6 DEF Patch!Caller, Patch!CallIt, Patch!Execute, Patch!TakeJump, Patch!SkipNop,
                  Patch!Return, Patch!RunHook, Patch!Stray
<1> QED BY <1>3, <1>4, <1>5, <1>6 DEF CallTypeInv

\* HookFunc leaves the calls where they are; those that it disturbs are met.
LEMMA HookFuncStep ==
    ASSUME MemoryInv, CallTypeInv, \A u \in Callers : CallOK(u), Patch!HookFunc
    PROVE  CallTypeInv' /\ \A t \in Callers : CallOK(t)'
<1>1. /\ at' = at /\ caller' = caller /\ at_ip' = at_ip /\ did' = did /\ stage # "hooked" /\ Patch!Met
      /\ Patch!Busy \/ Patch!Begin \/ Patch!Alloc \/ Patch!Copy \/ Patch!Build
      BY DEF Patch!HookFunc, Patch!Begin, Patch!Alloc, Patch!Copy, Patch!Build, Patch!Fill,
             Patch!WriteJump, Patch!Busy
<1>2. when' = [t \in Callers |-> IF Patch!Busy /\ caller[t] = "in" THEN "during" ELSE when[t]]
      BY <1>1 DEF Patch!Met
<1>3. CallTypeInv'
      BY <1>1, <1>2 DEF CallTypeInv
<1>4. ASSUME NEW t \in Callers PROVE CallOK(t)'
  <2>1. CASE Patch!Busy
        BY <1>1, <1>2, <2>1 DEF CallOK
  <2>2. CASE ~Patch!Busy
    <3>1. Intact'
      <4>1. at.x64 \in BOOLEAN /\ Moved' = Moved /\ Patch!len(at) = Moved
            BY <1>1, LayoutParts, LayoutStays DEF Moved, MemoryInv, StageInv
      <4>2. CASE Patch!Begin
            BY <1>1, <2>2, <4>1, <4>2 DEF Patch!Begin, Patch!Busy, Intact, Pristine
      <4>3. CASE Patch!Alloc
            BY <1>1, <2>2, <4>1, <4>3 DEF Patch!Alloc, Patch!Busy, Intact, Pristine
      <4>4. CASE Patch!Copy
            BY <1>1, <2>2, <4>1, <4>4 DEF Patch!Copy, Patch!Busy, Intact, Pristine
      <4>5. CASE Patch!Build
        <5>1. ~at.x64 /\ stage = "build" /\ stage' = "jump" /\ todo' = todo
              BY <2>2, <4>5 DEF Patch!Build, Patch!Busy
        <5>2. todo = 0..Moved - 1
              BY <5>1 DEF MemoryInv, TodoInv
        <5> QED BY <4>1, <5>1, <5>2 DEF Intact
      <4> QED BY <1>1, <2>2, <4>2, <4>3, <4>4, <4>5
    <3>2. \A a, s : BeforeAt(a, s)' = BeforeAt(a, s)
      <4>1. \A k : FuncAt(k)' = FuncAt(k)
            BY <1>1 DEF FuncAt
      <4> QED BY <4>1 DEF BeforeAt
    <3> QED BY <1>1, <1>2, <2>2, <3>1, <3>2 DEF CallOK
  <2> QED BY <2>1, <2>2
<1> QED BY <1>3, <1>4

LEMMA NextPatchInv == PatchInv /\ [Patch!Next]_Patch!vars => PatchInv'
<1> SUFFICES ASSUME PatchInv, [Patch!Next]_Patch!vars PROVE PatchInv'
    OBVIOUS
<1>1. CASE Patch!HookFunc
  <2>1. MemoryInv'
        BY <1>1, QuietStep, BuildStep, WriteStep, FillStep DEF PatchInv, Patch!HookFunc
  <2>2. CallTypeInv'
    <3>1. at_ip' = at_ip /\ did' = did /\ caller' = caller /\ Patch!Met
          BY <1>1 DEF Patch!HookFunc, Patch!Begin, Patch!Alloc, Patch!Copy, Patch!Build, Patch!Fill,
                      Patch!WriteJump
    <3> QED BY <3>1 DEF PatchInv, CallTypeInv, Patch!Met
  <2>3. Patch!Near' = Patch!Near
    <3>1. at' = at
          BY <1>1 DEF Patch!HookFunc, Patch!Begin, Patch!Alloc, Patch!Copy, Patch!Build, Patch!Fill,
                      Patch!WriteJump
    <3> QED BY <3>1 DEF Patch!Near
  <2>4. ASSUME Patch!Near PROVE \A t \in Callers : CallOK(t)'
        BY <1>1, <2>4, HookFuncStep DEF PatchInv
  <2> QED BY <2>1, <2>2, <2>3, <2>4 DEF PatchInv
<1>2. ASSUME NEW t \in Callers, Patch!Caller(t) PROVE PatchInv'
  <2>1. HookingSame /\ CallTypeInv'
        BY <1>2, CallerFrame DEF PatchInv
  <2>2. MemoryInv'
        BY <2>1, HookingKept DEF PatchInv
  <2>3. Patch!Near' = Patch!Near
        BY <2>1 DEF HookingSame, Patch!Near
  <2>4. ASSUME Patch!Near, NEW u \in Callers PROVE CallOK(u)'
        BY <1>2, <2>4, CallerStep DEF PatchInv
  <2> QED BY <2>1, <2>2, <2>3, <2>4 DEF PatchInv
<1>3. CASE UNCHANGED Patch!vars
  <2>1. HookingSame /\ caller' = caller /\ at_ip' = at_ip /\ did' = did /\ when' = when
        BY <1>3 DEF Patch!vars, HookingSame
  <2>2. MemoryInv' /\ Intact' = Intact
        /\ \A a, s : BeforeAt(a, s)' = BeforeAt(a, s) /\ AfterAt(a, s)' = AfterAt(a, s)
        BY <2>1, HookingKept DEF PatchInv
  <2>3. CallTypeInv' /\ Patch!Near' = Patch!Near /\ stage' = stage
        BY <2>1 DEF PatchInv, CallTypeInv, HookingSame, Patch!Near
  <2>4. \A t \in Callers : CallOK(t)' = CallOK(t)
        BY <2>1, <2>2, <2>3 DEF CallOK
  <2> QED BY <2>2, <2>3, <2>4 DEF PatchInv
<1> QED BY <1>1, <1>2, <1>3 DEF Patch!Next

\* A call that HookFunc (InjX86.cpp:738-777, Mapping64.cpp:120-208) does not meet runs the whole
\* function once and in order, behind the hook if the function was hooked by then; whatever
\* the function's instructions, and wherever function, hook and trampoline are.
THEOREM HookedCorrect == Patch!Spec => []HookedOnce
<1>1. Patch!Init => PatchInv
      BY PatchInit, CallTypeInit DEF PatchInv
<1>2. PatchInv => HookedOnce
      BY DEF PatchInv, CallOK, HookedOnce, Patch!HookedOnce, Hooked
<1> QED BY <1>1, <1>2, NextPatchInv, PTL DEF Patch!Spec

-----------------------------------------------------------------------------
(* ConnectHook: the hooked program's calls of connect.                     *)

\* Threads in the hook are in different calls, which are marked as shared, and
\* which have not returned.
ApartInv ==
    /\ \A t, u \in Threads : t # u /\ pc[t] # "out" /\ pc[u] # "out" =>
          call[t] # call[u] /\ calls[call[t]].shared
    /\ \A t \in Threads : pc[t] \notin {"out", "lost"} => ~calls[call[t]].over

Want(t) == calls[call[t]].want
Far(t)  == Want(t) \notin Local

\* What thread t, alone in the hook, finds in the globals and in its own record.
AloneAt(t) ==
    /\ pc[t] # "lost"
    /\ sockAddrBackup = call[t]
    /\ pc[t] \in {"clear", "test", "redirect"} => heap[sockAddrNew] = {Want(t)}
    /\ pc[t] \in {"redirect", "flag"} => Far(t)
    /\ pc[t] = "test" => ~isPatchUp
    /\ pc[t] = "flag" => heap[sockAddrNew] = {Proxy}
    /\ pc[t] \in {"connect", "connecting", "save", "sendTest", "frame", "return"} =>
          /\ heap[sockAddrNew] = IF Far(t) THEN {Proxy} ELSE {Want(t)}
          /\ isPatchUp = Far(t)
    /\ pc[t] \in {"connecting", "save", "sendTest", "frame", "return"} =>
          calls[call[t]].target = IF Far(t) THEN <<Proxy>> ELSE <<Want(t)>>
    /\ pc[t] \in {"sendTest", "frame", "return"} => retAddrBackup = call[t]
    /\ pc[t] = "frame" => Far(t)
    /\ pc[t] # "return" => calls[call[t]].frame = << >>
    /\ pc[t] = "return" =>
          calls[call[t]].frame =
              IF Far(t) /\ calls[call[t]].up THEN <<Want(t)>> ELSE << >>

AloneInv ==
    \A t \in Threads : pc[t] # "out" /\ ~calls[call[t]].shared => AloneAt(t)

DoneInv == AloneIsRedirected /\ AloneIsUntouched

IInv == TypeOK /\ ApartInv /\ AloneInv /\ DoneInv

USE HookAssumption

LEMMA InitIInv == Init => IInv
<1> SUFFICES ASSUME Init PROVE IInv
  OBVIOUS
<1>1. Len(calls) = 0 /\ Len(heap) = 0 /\ calls \in Seq(Call) /\ heap \in Seq(SUBSET Address)
  BY DEF Init
<1>2. pc \in [Threads -> Labels] /\ call \in [Threads -> 0..0] /\ \A t \in Threads : pc[t] = "out"
  BY DEF Init, Labels
<1>3. sockAddrBackup = 0 /\ sockAddrNew = 0 /\ retAddrBackup = 0 /\ isPatchUp = FALSE
  BY DEF Init
<1>4. TypeOK
  <2>1. call \in [Threads -> 0..Len(calls)]
    BY <1>1, <1>2
  <2>2. sockAddrBackup \in 0..Len(calls) /\ sockAddrNew \in 0..Len(heap)
        /\ retAddrBackup \in 0..Len(calls)
    BY <1>1, <1>3
  <2>3. isPatchUp \in BOOLEAN
    BY <1>3
  <2> QED BY <1>1, <1>2, <2>1, <2>2, <2>3 DEF TypeOK
<1>5. ApartInv /\ AloneInv
  BY <1>2 DEF ApartInv, AloneInv
<1>6. DoneInv
  BY <1>1 DEF DoneInv, AloneIsRedirected, AloneIsUntouched
<1> QED
  BY <1>4, <1>5, <1>6 DEF IInv

\* A call starts: if another thread is in the hook, both calls are shared.
LEMMA EnterIInv ==
    ASSUME IInv, NEW t \in Threads, NEW a \in Address, Enter(t, a)
    PROVE  IInv'
<1> DEFINE n == Len(calls) + 1
           new == [want |-> a, target |-> << >>, up |-> FALSE, frame |-> << >>,
                   shared |-> {u \in Threads : pc[u] # "out"} # {}, over |-> FALSE]
<1>1. /\ Len(calls) \in Nat /\ calls \in Seq(Call) /\ call \in [Threads -> 0..Len(calls)]
      /\ pc \in [Threads -> Labels]
  BY DEF IInv, TypeOK
<1>2. new \in Call
  BY DEF Call, Maybe
<1> DEFINE old == [c \in 1..Len(calls) |->
                      [calls[c] EXCEPT !.shared =
                          @ \/ \E u \in {v \in Threads : pc[v] # "out"} : call[u] = c]]
<1>3. old \in Seq(Call) /\ Len(old) = Len(calls)
  <2>1. \A c \in 1..Len(calls) : old[c] \in Call
    <3> SUFFICES ASSUME NEW c \in 1..Len(calls) PROVE old[c] \in Call
      OBVIOUS
    <3>1. calls[c] \in Call
      BY <1>1
    <3>2. \A b \in BOOLEAN : [calls[c] EXCEPT !.shared = b] \in Call
      BY <3>1 DEF Call
    <3>3. (calls[c].shared \/ \E u \in {v \in Threads : pc[v] # "out"} : call[u] = c) \in BOOLEAN
      BY <3>1 DEF Call
    <3> QED BY <3>2, <3>3
  <2>2. old \in [1..Len(calls) -> Call]
    BY <2>1
  <2> HIDE DEF old
  <2> QED BY <1>1, <2>2
<1>4. calls' = Append(old, new)
  BY DEF Enter, Step
<1>4a. \A c \in 1..Len(calls) :
         /\ old[c].want = calls[c].want /\ old[c].target = calls[c].target
         /\ old[c].up = calls[c].up /\ old[c].frame = calls[c].frame
         /\ old[c].over = calls[c].over
         /\ ~old[c].shared => ~calls[c].shared
         /\ (\E u \in Threads : pc[u] # "out" /\ call[u] = c) => old[c].shared
  <2> SUFFICES ASSUME NEW c \in 1..Len(calls)
               PROVE  /\ old[c].want = calls[c].want /\ old[c].target = calls[c].target
                      /\ old[c].up = calls[c].up /\ old[c].frame = calls[c].frame
                      /\ old[c].over = calls[c].over
                      /\ ~old[c].shared => ~calls[c].shared
                      /\ (\E u \in Threads : pc[u] # "out" /\ call[u] = c) => old[c].shared
    OBVIOUS
  <2>1. calls[c] \in Call
    BY <1>1
  <2>2. old[c].shared = (calls[c].shared \/ \E u \in {v \in Threads : pc[v] # "out"} : call[u] = c)
    BY <2>1 DEF Call
  <2>3. old[c].want = calls[c].want /\ old[c].target = calls[c].target
        /\ old[c].up = calls[c].up /\ old[c].frame = calls[c].frame
        /\ old[c].over = calls[c].over
    BY <2>1 DEF Call
  <2> QED BY <2>2, <2>3
<1> HIDE DEF old, new
<1>5. /\ calls' \in Seq(Call) /\ Len(calls') = n
      /\ calls'[n] = new
      /\ \A c \in 1..Len(calls) : calls'[c] = old[c]
  BY <1>1, <1>2, <1>3, <1>4
<1>6. \A c \in 1..Len(calls) :
         /\ calls'[c].want = calls[c].want /\ calls'[c].target = calls[c].target
         /\ calls'[c].up = calls[c].up /\ calls'[c].frame = calls[c].frame
         /\ calls'[c].over = calls[c].over
         /\ ~calls'[c].shared => ~calls[c].shared
         /\ (\E u \in Threads : pc[u] # "out" /\ call[u] = c) => calls'[c].shared
  BY <1>4a, <1>5
<1>7. /\ pc[t] = "out" /\ pc'[t] = "new" /\ call'[t] = n
      /\ \A u \in Threads : u # t => pc'[u] = pc[u] /\ call'[u] = call[u]
  BY <1>1 DEF Enter, Step
<1>8. \A u \in Threads : pc[u] # "out" => u # t /\ call[u] \in 1..Len(calls) /\ calls'[call[u]].shared
  BY <1>1, <1>6, <1>7 DEF IInv, TypeOK
<1>9. TypeOK'
  <2>1. call' \in [Threads -> 0..Len(calls')]
    BY <1>1, <1>5 DEF Enter
  <2>2. pc' \in [Threads -> Labels]
    BY <1>1 DEF Enter, Step, Labels
  <2>3. sockAddrBackup' \in 0..Len(calls') /\ sockAddrNew' \in 0..Len(heap')
        /\ retAddrBackup' \in 0..Len(calls') /\ heap' \in Seq(SUBSET Address)
        /\ isPatchUp' \in BOOLEAN
    BY <1>1, <1>5 DEF Enter, IInv, TypeOK
  <2>4. \A u \in Threads : pc'[u] # "out" => call'[u] > 0 /\ sockAddrBackup' > 0
    BY <1>1, <1>7 DEF Enter, IInv, TypeOK
  <2>5. \A u \in Threads : pc'[u] \notin {"out", "new"} => sockAddrNew' > 0
    BY <1>1, <1>7 DEF Enter, IInv, TypeOK
  <2> QED BY <1>5, <2>1, <2>2, <2>3, <2>4, <2>5 DEF TypeOK
<1>10. ApartInv'
  <2>1. \A u, v \in Threads : u # v /\ pc'[u] # "out" /\ pc'[v] # "out" =>
           call'[u] # call'[v] /\ calls'[call'[u]].shared
    <3> SUFFICES ASSUME NEW u \in Threads, NEW v \in Threads,
                        u # v, pc'[u] # "out", pc'[v] # "out"
                 PROVE  call'[u] # call'[v] /\ calls'[call'[u]].shared
      OBVIOUS
    <3>1. CASE u = t
      <4>1. pc[v] # "out" /\ call'[v] = call[v] /\ call[v] \in 1..Len(calls)
        BY <3>1, <1>7, <1>8
      <4>2. {w \in Threads : pc[w] # "out"} # {}
        BY <4>1
      <4>3. new.shared = TRUE
        BY <4>2 DEF new
      <4>4. calls'[n].shared
        BY <4>3, <1>5
      <4> QED BY <3>1, <4>1, <4>4, <1>1, <1>7
    <3>2. CASE v = t
      BY <3>2, <1>1, <1>7, <1>8
    <3>3. CASE u # t /\ v # t
      BY <3>3, <1>7, <1>8 DEF IInv, ApartInv
    <3> QED BY <3>1, <3>2, <3>3
  <2>2. \A u \in Threads : pc'[u] \notin {"out", "lost"} => ~calls'[call'[u]].over
    <3> SUFFICES ASSUME NEW u \in Threads, pc'[u] \notin {"out", "lost"}
                 PROVE  ~calls'[call'[u]].over
      OBVIOUS
    <3>1. CASE u = t
      BY <3>1, <1>5, <1>7 DEF new
    <3>2. CASE u # t
      BY <3>2, <1>6, <1>7, <1>8 DEF IInv, ApartInv
    <3> QED BY <3>1, <3>2
  <2> QED BY <2>1, <2>2 DEF ApartInv
<1>11. AloneInv'
  <2> SUFFICES ASSUME NEW u \in Threads, pc'[u] # "out", ~calls'[call'[u]].shared
               PROVE  AloneAt(u)'
    BY DEF AloneInv
  <2>1. u = t
    BY <1>7, <1>8
  <2> QED
    BY <2>1, <1>5, <1>7 DEF AloneAt, Enter, new
<1>12. DoneInv'
  <2>1. \A c \in 1..Len(calls') : Alone(c)' => c \in 1..Len(calls) /\ Alone(c)
    <3> SUFFICES ASSUME NEW c \in 1..Len(calls'), calls'[c].over, ~calls'[c].shared
                 PROVE  c \in 1..Len(calls) /\ calls[c].over /\ ~calls[c].shared
      BY DEF Alone
    <3>1. c # n
      BY <1>5 DEF new
    <3> QED BY <3>1, <1>1, <1>5, <1>6
  <2> QED
    BY <2>1, <1>6 DEF IInv, DoneInv, AloneIsRedirected, AloneIsUntouched
<1> QED
  BY <1>9, <1>10, <1>11, <1>12 DEF IInv

\* A step of a thread inside the hook: what it leaves alone.
Inside(t, from, to) ==
    /\ t \in Threads /\ from # "out"
    /\ pc[t] = from /\ pc' = [pc EXCEPT ![t] = to]
    /\ call' = call /\ sockAddrBackup' = sockAddrBackup
    /\ Len(calls') = Len(calls)
    /\ \A c \in 1..Len(calls) :
          /\ calls'[c].shared = calls[c].shared /\ calls'[c].want = calls[c].want
          /\ c # call[t] => calls'[c] = calls[c]

\* A thread that goes on in the hook alone must leave itself what it needs, and one
\* that leaves it alone must have done its work; nobody else is concerned.
LEMMA InsideIInv ==
    ASSUME IInv, NEW t \in Threads, NEW from, NEW to, from # "lost",
           Inside(t, from, to), TypeOK',
           to \notin {"out", "lost"} => calls'[call[t]].over = calls[call[t]].over,
           to # "out" /\ ~calls'[call[t]].shared => AloneAt(t)',
           to = "out" \/ calls'[call[t]].over = calls[call[t]].over \/ calls[call[t]].shared,
           to = "out" /\ ~calls[call[t]].shared =>
              /\ calls'[call[t]].target = IF Far(t) THEN <<Proxy>> ELSE <<Want(t)>>
              /\ calls'[call[t]].frame =
                    IF Far(t) /\ calls'[call[t]].up THEN <<Want(t)>> ELSE << >>
    PROVE  IInv'
<1> DEFINE c0 == call[t]
<1>1. /\ pc \in [Threads -> Labels] /\ call \in [Threads -> 0..Len(calls)]
      /\ Len(calls) \in Nat /\ calls \in Seq(Call)
      /\ c0 \in 1..Len(calls) /\ pc[t] # "out" /\ ~calls[c0].over
  BY DEF IInv, TypeOK, Inside, ApartInv
<1>2. /\ pc'[t] = to /\ \A u \in Threads : u # t => pc'[u] = pc[u]
  BY <1>1 DEF Inside
<1>3. \A u \in Threads : u # t /\ pc[u] # "out" =>
         call[u] \in 1..Len(calls) /\ call[u] # c0 /\ calls'[call[u]] = calls[call[u]]
           /\ calls[call[u]].shared
  BY <1>1 DEF IInv, TypeOK, ApartInv, Inside
<1>4. ApartInv'
  BY <1>1, <1>2, <1>3 DEF IInv, ApartInv, Inside
<1>5. AloneInv'
  BY <1>1, <1>2, <1>3 DEF AloneInv, Inside
<1>6. DoneInv'
  <2> SUFFICES ASSUME NEW c \in 1..Len(calls'), Alone(c)'
               PROVE  /\ calls'[c].want \notin Local =>
                            /\ calls'[c].target = <<Proxy>>
                            /\ calls'[c].frame =
                                  IF calls'[c].up THEN <<calls'[c].want>> ELSE << >>
                      /\ calls'[c].want \in Local =>
                            calls'[c].target = <<calls'[c].want>> /\ calls'[c].frame = << >>
    BY DEF DoneInv, AloneIsRedirected, AloneIsUntouched
  <2>1. CASE c = c0
    BY <2>1, <1>1 DEF Alone, Inside, Far, Want
  <2>2. CASE c # c0
    BY <2>2, <1>1 DEF Alone, Inside, IInv, DoneInv, AloneIsRedirected, AloneIsUntouched
  <2> QED BY <2>1, <2>2
<1> QED
  BY <1>4, <1>5, <1>6 DEF IInv

\* Replacing one element of a sequence.
LEMMA ReplaceOne ==
    ASSUME NEW S, NEW s \in Seq(S), NEW i \in 1..Len(s), NEW r \in S
    PROVE  /\ [s EXCEPT ![i] = r] \in Seq(S)
           /\ Len([s EXCEPT ![i] = r]) = Len(s)
           /\ [s EXCEPT ![i] = r][i] = r
           /\ \A j \in 1..Len(s) : j # i => [s EXCEPT ![i] = r][j] = s[j]
<1> DEFINE e == [s EXCEPT ![i] = r]
<1>1. Len(s) \in Nat /\ DOMAIN s = 1..Len(s) /\ \A j \in 1..Len(s) : s[j] \in S
  OBVIOUS
<1>2. e \in [1..Len(s) -> S]
  BY <1>1
<1>3. e[i] = r /\ \A j \in 1..Len(s) : j # i => e[j] = s[j]
  BY <1>1
<1> HIDE DEF e
<1>4. e \in Seq(S) /\ Len(e) = Len(s)
  BY <1>1, <1>2
<1> QED
  BY <1>3, <1>4 DEF e

\* The steps that stay inside the hook and the one that leaves it, one by one.
LEMMA StepIInv ==
    ASSUME IInv, NEW t \in Threads,
           NewAddr(t) \/ CopyAddr(t) \/ ClearFlag(t) \/ TestHost(t) \/ Redirect(t)
             \/ SetFlag(t) \/ ConnectCall(t) \/ (\E up \in BOOLEAN : ConnectReturns(t, up))
             \/ SaveReturn(t) \/ SendTest(t) \/ SendFrame(t) \/ Return(t)
    PROVE  IInv'
<1> DEFINE c0 == call[t]
<1>1. /\ pc \in [Threads -> Labels] /\ call \in [Threads -> 0..Len(calls)]
      /\ Len(calls) \in Nat /\ calls \in Seq(Call) /\ heap \in Seq(SUBSET Address)
      /\ sockAddrBackup \in 0..Len(calls) /\ sockAddrNew \in 0..Len(heap)
      /\ pc[t] # "out" => c0 \in 1..Len(calls) /\ sockAddrBackup \in 1..Len(calls)
      /\ pc[t] \notin {"out", "new"} => sockAddrNew \in 1..Len(heap)
  BY DEF IInv, TypeOK
<1>2. \A c \in 1..Len(calls) : calls[c] \in Call
  BY <1>1
<1>3. pc[t] \notin {"out", "lost"} => ~calls[c0].over
  BY DEF IInv, ApartInv
<1>4. pc[t] # "out" /\ ~calls[c0].shared => AloneAt(t)
  BY DEF IInv, AloneInv
<1>5. pc[t] \notin {"out", "lost"} /\ ~calls[c0].shared => Backup = {Want(t)}
  BY <1>3, <1>4 DEF AloneAt, Backup, Want
<1>6. \A c \in 1..Len(calls) : calls[c].want \in Address
  BY <1>2 DEF Call
<1>7. Backup \subseteq Address \/ pc[t] = "out"
  BY <1>1, <1>6 DEF Backup
<1>8. CASE NewAddr(t)
  <2>1. Inside(t, "new", "copy")
    BY <1>8, <1>1 DEF NewAddr, Step, Inside
  <2>2. TypeOK'
    BY <1>8, <1>1 DEF NewAddr, Step, IInv, TypeOK, Labels
  <2>3. ~calls'[c0].shared => AloneAt(t)'
    BY <1>8, <1>1, <1>4 DEF NewAddr, Step, AloneAt, Want, Far
  <2> QED BY <1>8, <2>1, <2>2, <2>3, InsideIInv DEF NewAddr
<1>9. CASE CopyAddr(t)
  <2>1. Inside(t, "copy", "clear")
    BY <1>9, <1>1 DEF CopyAddr, Step, Inside
  <2>2. TypeOK'
    BY <1>9, <1>1, <1>7 DEF CopyAddr, Step, IInv, TypeOK, Labels
  <2>3. ~calls'[c0].shared => AloneAt(t)'
    BY <1>9, <1>1, <1>4, <1>5 DEF CopyAddr, Step, AloneAt, Want, Far
  <2> QED BY <1>9, <2>1, <2>2, <2>3, InsideIInv DEF CopyAddr
<1>10. CASE ClearFlag(t)
  <2>1. Inside(t, "clear", "test")
    BY <1>10, <1>1 DEF ClearFlag, Step, Inside
  <2>2. TypeOK'
    BY <1>10, <1>1 DEF ClearFlag, Step, IInv, TypeOK, Labels
  <2>3. ~calls'[c0].shared => AloneAt(t)'
    BY <1>10, <1>1, <1>4 DEF ClearFlag, Step, AloneAt, Want, Far
  <2> QED BY <1>10, <2>1, <2>2, <2>3, InsideIInv DEF ClearFlag
<1>11. CASE TestHost(t)
  <2>1. Inside(t, "test", "redirect") \/ Inside(t, "test", "connect")
    BY <1>11, <1>1 DEF TestHost, Step, Inside, globals
  <2>2. TypeOK'
    BY <1>11, <1>1 DEF TestHost, Step, IInv, TypeOK, Labels, globals
  <2>3. ~calls'[c0].shared => AloneAt(t)'
    <3> SUFFICES ASSUME ~calls[c0].shared PROVE AloneAt(t)'
      BY <1>11 DEF TestHost
    <3>1. pc[t] = "test" /\ heap[sockAddrNew] = {Want(t)} /\ ~isPatchUp /\ AloneAt(t)
      BY <1>11, <1>4 DEF TestHost, Step, AloneAt
    <3>2. /\ calls' = calls /\ call' = call /\ heap' = heap /\ sockAddrNew' = sockAddrNew
          /\ isPatchUp' = isPatchUp /\ sockAddrBackup' = sockAddrBackup
          /\ retAddrBackup' = retAddrBackup
      BY <1>11 DEF TestHost, globals
    <3>3. CASE Step(t, "test", "redirect") /\ heap[sockAddrNew] \ Local # {}
      <4>1. Far(t) /\ pc'[t] = "redirect"
        BY <3>1, <3>3, <1>1 DEF Far, Step
      <4> QED BY <4>1, <3>1, <3>2 DEF AloneAt, Want, Far
    <3>4. CASE Step(t, "test", "connect") /\ heap[sockAddrNew] \cap Local # {}
      <4>1. ~Far(t) /\ pc'[t] = "connect"
        BY <3>1, <3>4, <1>1 DEF Far, Step
      <4>2. isPatchUp = Far(t)
        BY <4>1, <3>1, <1>1 DEF IInv, TypeOK, Far
      <4> QED BY <4>1, <4>2, <3>1, <3>2 DEF AloneAt, Want, Far
    <3> QED BY <1>11, <3>3, <3>4 DEF TestHost
  <2> QED BY <1>11, <2>1, <2>2, <2>3, InsideIInv DEF TestHost
<1>12. CASE Redirect(t)
  <2>1. Inside(t, "redirect", "flag")
    BY <1>12, <1>1 DEF Redirect, Step, Inside
  <2>2. TypeOK'
    BY <1>12, <1>1 DEF Redirect, Step, IInv, TypeOK, Labels
  <2>3. ~calls'[c0].shared => AloneAt(t)'
    BY <1>12, <1>1, <1>4 DEF Redirect, Step, AloneAt, Want, Far
  <2> QED BY <1>12, <2>1, <2>2, <2>3, InsideIInv DEF Redirect
<1>13. CASE SetFlag(t)
  <2>1. Inside(t, "flag", "connect")
    BY <1>13, <1>1 DEF SetFlag, Step, Inside
  <2>2. TypeOK'
    BY <1>13, <1>1 DEF SetFlag, Step, IInv, TypeOK, Labels
  <2>3. ~calls'[c0].shared => AloneAt(t)'
    BY <1>13, <1>1, <1>4 DEF SetFlag, Step, AloneAt, Want, Far
  <2> QED BY <1>13, <2>1, <2>2, <2>3, InsideIInv DEF SetFlag
<1>14. CASE ConnectCall(t)
  <2>1. PICK a \in heap[sockAddrNew] : calls' = [calls EXCEPT ![c0].target = <<a>>]
    BY <1>14 DEF ConnectCall
  <2>2. a \in Address
    BY <1>14, <1>1 DEF ConnectCall, Step
  <2> DEFINE r == [calls[c0] EXCEPT !.target = <<a>>]
  <2>3. c0 \in 1..Len(calls) /\ calls' = [calls EXCEPT ![c0] = r]
    BY <1>14, <1>1, <2>1 DEF ConnectCall, Step
  <2>3a. r \in Call /\ r.want = calls[c0].want /\ r.shared = calls[c0].shared
         /\ r.over = calls[c0].over /\ r.frame = calls[c0].frame /\ r.target = <<a>>
    BY <1>2, <2>2, <2>3 DEF Call, Maybe
  <2> HIDE DEF r
  <2>3b. /\ calls' \in Seq(Call) /\ Len(calls') = Len(calls) /\ calls'[c0] = r
         /\ \A c \in 1..Len(calls) : c # c0 => calls'[c] = calls[c]
    BY <1>1, <2>3, <2>3a, ReplaceOne
  <2>4. Inside(t, "connect", "connecting")
    BY <1>14, <1>1, <2>3a, <2>3b DEF ConnectCall, Step, Inside, globals
  <2>5. TypeOK'
    BY <1>14, <1>1, <2>3b, <2>4 DEF ConnectCall, Step, IInv, TypeOK, Labels, globals, Inside
  <2>6. ~calls'[c0].shared => AloneAt(t)'
    BY <1>14, <1>1, <1>4, <2>1, <2>3a, <2>3b DEF ConnectCall, Step, AloneAt, Want, Far, globals
  <2> QED BY <2>3a, <2>3b, <2>4, <2>5, <2>6, InsideIInv
<1>15. CASE \E up \in BOOLEAN : ConnectReturns(t, up)
  <2>1. PICK up \in BOOLEAN : ConnectReturns(t, up)
    BY <1>15
  <2> DEFINE r == [calls[c0] EXCEPT !.up = up]
  <2>3. c0 \in 1..Len(calls) /\ calls' = [calls EXCEPT ![c0] = r]
    BY <1>1, <2>1 DEF ConnectReturns, Step
  <2>3a. r \in Call /\ r.want = calls[c0].want /\ r.shared = calls[c0].shared
         /\ r.over = calls[c0].over /\ r.frame = calls[c0].frame /\ r.target = calls[c0].target
    BY <1>2, <2>3 DEF Call
  <2> HIDE DEF r
  <2>3b. /\ calls' \in Seq(Call) /\ Len(calls') = Len(calls) /\ calls'[c0] = r
         /\ \A c \in 1..Len(calls) : c # c0 => calls'[c] = calls[c]
    BY <1>1, <2>3, <2>3a, ReplaceOne
  <2>4. Inside(t, "connecting", "save")
    BY <1>1, <2>1, <2>3a, <2>3b DEF ConnectReturns, Step, Inside, globals
  <2>5. TypeOK'
    BY <1>1, <2>1, <2>3b, <2>4 DEF ConnectReturns, Step, IInv, TypeOK, Labels, globals, Inside
  <2>6. ~calls'[c0].shared => AloneAt(t)'
    BY <1>1, <1>4, <2>1, <2>3a, <2>3b DEF ConnectReturns, Step, AloneAt, Want, Far, globals
  <2> QED BY <2>3a, <2>3b, <2>4, <2>5, <2>6, InsideIInv
<1>16. CASE SaveReturn(t)
  <2>1. Inside(t, "save", "sendTest")
    BY <1>16, <1>1 DEF SaveReturn, Step, Inside
  <2>2. TypeOK'
    BY <1>16, <1>1 DEF SaveReturn, Step, IInv, TypeOK, Labels
  <2>3. ~calls'[c0].shared => AloneAt(t)'
    BY <1>16, <1>1, <1>4 DEF SaveReturn, Step, AloneAt, Want, Far
  <2> QED BY <1>16, <2>1, <2>2, <2>3, InsideIInv DEF SaveReturn
<1>17. CASE SendTest(t)
  <2>1. Inside(t, "sendTest", "frame") \/ Inside(t, "sendTest", "return")
    BY <1>17, <1>1 DEF SendTest, Step, Inside, globals
  <2>2. TypeOK'
    BY <1>17, <1>1 DEF SendTest, Step, IInv, TypeOK, Labels, globals
  <2>3. ~calls'[c0].shared => AloneAt(t)'
    BY <1>17, <1>1, <1>4 DEF SendTest, Step, AloneAt, Want, Far, globals
  <2> QED BY <1>17, <2>1, <2>2, <2>3, InsideIInv DEF SendTest
<1>18. CASE SendFrame(t)
  <2>1. PICK a \in Backup :
           calls' = IF calls[c0].up THEN [calls EXCEPT ![c0].frame = <<a>>] ELSE calls
    BY <1>18 DEF SendFrame
  <2>2. a \in Address /\ pc[t] = "frame"
    BY <1>18, <1>7 DEF SendFrame, Step
  <2> DEFINE r == IF calls[c0].up THEN [calls[c0] EXCEPT !.frame = <<a>>] ELSE calls[c0]
  <2>3. c0 \in 1..Len(calls) /\ calls' = IF calls[c0].up THEN [calls EXCEPT ![c0] = r] ELSE calls
    BY <1>1, <2>1, <2>2
  <2>3a. r \in Call /\ r.want = calls[c0].want /\ r.shared = calls[c0].shared
         /\ r.over = calls[c0].over /\ r.target = calls[c0].target /\ r.up = calls[c0].up
         /\ r.frame = IF calls[c0].up THEN <<a>> ELSE calls[c0].frame
    BY <1>2, <2>2, <2>3 DEF Call, Maybe
  <2>3c. ~calls[c0].up => r = calls[c0]
    OBVIOUS
  <2> HIDE DEF r
  <2>3b. /\ calls' \in Seq(Call) /\ Len(calls') = Len(calls) /\ calls'[c0] = r
         /\ \A c \in 1..Len(calls) : c # c0 => calls'[c] = calls[c]
    <3>1. CASE calls[c0].up
      BY <3>1, <1>1, <2>3, <2>3a, ReplaceOne
    <3>2. CASE ~calls[c0].up
      BY <3>2, <1>1, <2>3, <2>3c
    <3> QED BY <3>1, <3>2
  <2>4. Inside(t, "frame", "return")
    BY <1>18, <1>1, <2>3a, <2>3b DEF SendFrame, Step, Inside, globals
  <2>5. TypeOK'
    BY <1>18, <1>1, <2>3b, <2>4 DEF SendFrame, Step, IInv, TypeOK, Labels, globals, Inside
  <2>6. ~calls'[c0].shared => AloneAt(t)'
    BY <1>18, <1>1, <1>4, <1>5, <2>1, <2>2, <2>3a, <2>3b
       DEF SendFrame, Step, AloneAt, Want, Far, globals
  <2> QED BY <2>3a, <2>3b, <2>4, <2>5, <2>6, InsideIInv
<1>19. CASE Return(t)
  <2>1. pc[t] = "return" /\ calls' = [calls EXCEPT ![c0].over = TRUE]
    BY <1>19 DEF Return, Step
  <2> DEFINE r == [calls[c0] EXCEPT !.over = TRUE]
  <2>2. c0 \in 1..Len(calls) /\ calls' = [calls EXCEPT ![c0] = r]
    BY <1>1, <2>1
  <2>2a. r \in Call /\ r.want = calls[c0].want /\ r.shared = calls[c0].shared
         /\ r.up = calls[c0].up /\ r.frame = calls[c0].frame /\ r.target = calls[c0].target
    BY <1>2, <2>2 DEF Call
  <2> HIDE DEF r
  <2>2b. /\ calls' \in Seq(Call) /\ Len(calls') = Len(calls) /\ calls'[c0] = r
         /\ \A c \in 1..Len(calls) : c # c0 => calls'[c] = calls[c]
    BY <1>1, <2>2, <2>2a, ReplaceOne
  <2> DEFINE to == IF retAddrBackup = c0 THEN "out" ELSE "lost"
  <2>3. Inside(t, "return", to)
    BY <1>19, <1>1, <2>2a, <2>2b DEF Return, Step, Inside, globals
  <2>4. TypeOK'
    BY <1>19, <1>1, <2>2b, <2>3 DEF Return, Step, IInv, TypeOK, Labels, globals, Inside
  <2>5. to = "lost" => calls[c0].shared
    BY <1>4, <2>1 DEF AloneAt
  <2>6. to = "out" /\ ~calls[c0].shared =>
              /\ calls'[c0].target = IF Far(t) THEN <<Proxy>> ELSE <<Want(t)>>
              /\ calls'[c0].frame = IF Far(t) /\ calls'[c0].up THEN <<Want(t)>> ELSE << >>
    BY <1>4, <2>1, <2>2a, <2>2b DEF AloneAt
  <2>7. calls'[c0].shared = calls[c0].shared
    BY <2>2a, <2>2b
  <2> QED BY <1>19, <2>3, <2>4, <2>5, <2>6, <2>7, InsideIInv
<1> QED
  BY <1>8, <1>9, <1>10, <1>11, <1>12, <1>13, <1>14, <1>15, <1>16, <1>17, <1>18, <1>19

LEMMA NextIInv == IInv /\ [Next]_vars => IInv'
<1> SUFFICES ASSUME IInv, [Next]_vars PROVE IInv'
  OBVIOUS
<1>1. CASE Next
  <2>1. PICK t \in Threads : hookConnect(t)
    BY <1>1 DEF Next
  <2>2. CASE \E a \in Address : Enter(t, a)
    BY <2>2, EnterIInv
  <2>3. CASE ~\E a \in Address : Enter(t, a)
    BY <2>1, <2>3, StepIInv DEF hookConnect
  <2> QED BY <2>2, <2>3
<1>2. CASE UNCHANGED vars
  BY <1>2, ZenonT(60) DEF vars, globals, IInv, TypeOK, ApartInv, AloneInv, AloneAt, Want, Far, DoneInv,
              AloneIsRedirected, AloneIsUntouched, Alone
<1> QED
  BY <1>1, <1>2

THEOREM Invariance == Spec => []IInv
  BY InitIInv, NextIInv, PTL DEF Spec

\* For every number of threads and of calls: a call that no other overlaps reaches the
\* proxy and has its own destination sent, or is left alone if it is for this machine.
THEOREM ServedCorrect == Spec => []AloneIsServed
<1>1. IInv => AloneIsServed
  BY DEF IInv, DoneInv, AloneIsServed
<1> QED
  BY <1>1, Invariance, PTL

\* Only overlapping calls can send a thread to another call's return address.
THEOREM ReturnsCorrect == Spec => [](TypeOK /\ LostNeedsOverlap)
<1>1. IInv => TypeOK /\ LostNeedsOverlap
  BY DEF IInv, AloneInv, AloneAt, LostNeedsOverlap
<1> QED
  BY <1>1, Invariance, PTL

=============================================================================
