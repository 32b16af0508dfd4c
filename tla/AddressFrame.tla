---------------------------- MODULE AddressFrame ----------------------------
(***************************************************************************)
(* How a wanted address crosses from the hooked program to the proxy: the  *)
(* frame that SendPatch (InjX86/InjX86/InjX86.cpp) writes, and how         *)
(* ClientMain and UdpServer read it.                                       *)
(*                                                                         *)
(* Both sides run on little-endian machines.  A word of two or four bytes  *)
(* is its bytes in memory, low byte first: copying it to or from a buffer  *)
(* keeps them, a change of byte order reverses them, and the casts between *)
(* signed and unsigned words of the source keep them too.                  *)
(***************************************************************************)
EXTENDS Naturals, Sequences

CONSTANTS
    Addresses,      \* IPv4 addresses a.b.c.d as <<a, b, c, d>>
    Ports           \* port numbers

Byte      == 0..255
UShortMax == 65535
Number    == 0..UShortMax

ASSUME AddressAssumption ==
    /\ Addresses \subseteq Byte \X Byte \X Byte \X Byte
    /\ Ports \subseteq Number

VARIABLES
    want,           \* the address the program connects to
    protocol,       \* of its socket: 6 (TCP) or 17 (UDP)
    wire,           \* the frame, as far as it arrives
    outcome         \* "none" yet, "link", "data" (no address frame) or "exception"
                    \* of the reader, and the address it has read
frameVars == <<want, protocol, wire, outcome>>

EndPoint == [address : Addresses, port : Ports]

-----------------------------------------------------------------------------
(* Words.                                                                  *)

\* htons, htonl and NetworkToHostOrder.
SwapBytes(word) == [i \in 1..Len(word) |-> word[Len(word) + 1 - i]]

\* The value of a word of two bytes, and the word of a value.
UShort(word)  == word[1] + 256 * word[2]
ToUShort(n) == <<n % 256, n \div 256>>

\* BitConverter.ToUInt16(buffer, i) and ToUInt32(temp, 0) of the four bytes from i on.
ToUInt16(buffer, i) == <<buffer[i + 1], buffer[i + 2]>>
ToUInt32(buffer, i) == <<buffer[i + 1], buffer[i + 2], buffer[i + 3], buffer[i + 4]>>

-----------------------------------------------------------------------------
(* The hook: sin_port and s_addr are in network byte order in memory.      *)

sin_port(e) == SwapBytes(ToUShort(e.port))
s_addr(e)   == e.address

\* The buffer that SendPatch fills: the opcode for a datagram, port and address.
Layout(prot, opcode, port, addr) ==
    IF prot = 6
    THEN <<port[1], port[2], addr[1], addr[2], addr[3], addr[4]>>
    ELSE <<opcode[1], opcode[2], port[1], port[2], addr[1], addr[2], addr[3], addr[4]>>

\* Faulty variant: the address as it is.
Frame_NoHtonl(e, prot) == Layout(prot, SwapBytes(ToUShort(1337)), sin_port(e), s_addr(e))

\* SendPatch.
Frame(e, prot) ==
    Layout(prot, SwapBytes(ToUShort(1337)), sin_port(e), SwapBytes(s_addr(e)))

(* The proxy: new IPAddress(word) takes the bytes of the word in the order *)
(* in which they are in memory.                                            *)

\* ClientMain.GetRelayEndPoint.
GetRelayEndPoint(buffer) ==
    [address |-> SwapBytes(ToUInt32(buffer, 2)),
     port    |-> UShort(SwapBytes(ToUInt16(buffer, 0)))]

\* UdpServer.IsPacketAddress: the exception for a buffer of fewer than two bytes is caught.
IsPacketAddress(buffer) ==
    Len(buffer) >= 2 /\ UShort(SwapBytes(ToUInt16(buffer, 0))) = 1337

\* UdpServer.GetDestAddress: 0 for a buffer that is too short.
GetDestAddress(buffer) ==
    IF Len(buffer) >= 8 THEN SwapBytes(ToUInt32(buffer, 4)) ELSE <<0, 0, 0, 0>>

\* UdpServer.GetEndPoint; GetDestPort throws for a buffer of fewer than four bytes.
GetEndPoint(buffer) ==
    [address |-> GetDestAddress(buffer),
     port    |-> UShort(SwapBytes(ToUInt16(buffer, 2)))]

-----------------------------------------------------------------------------
FrameInit ==
    /\ want \in EndPoint
    /\ protocol \in {6, 17}
    /\ wire = << >>
    /\ outcome = <<"none">>

\* The frame is sent.  A datagram of n bytes may be all there is of it: the opcode
\* is all that tells it from the datagrams of other programs.
SendPatch ==
    /\ wire = << >> /\ outcome = <<"none">>
    /\ \E n \in 1..Len(Frame(want, protocol)) :
          /\ protocol = 6 => n = Len(Frame(want, protocol))
          /\ wire' = SubSeq(Frame(want, protocol), 1, n)
    /\ UNCHANGED <<want, protocol, outcome>>

\* ClientMain has six bytes together (Handshake).
ReadHeader ==
    /\ protocol = 6 /\ wire # << >> /\ outcome = <<"none">>
    /\ outcome' = <<"link", GetRelayEndPoint(wire)>>
    /\ UNCHANGED <<want, protocol, wire>>

\* UdpServer receives the datagram.
ReadDatagram ==
    /\ protocol = 17 /\ wire # << >> /\ outcome = <<"none">>
    /\ outcome' = IF ~IsPacketAddress(wire) THEN <<"data">>
                  ELSE IF Len(wire) < 4 THEN <<"exception">>
                  ELSE <<"link", GetEndPoint(wire)>>
    /\ UNCHANGED <<want, protocol, wire>>

FrameNext == SendPatch \/ ReadHeader \/ ReadDatagram

FrameSpec == FrameInit /\ [][FrameNext]_frameVars

-----------------------------------------------------------------------------
Whole == Len(wire) = IF protocol = 6 THEN 6 ELSE 8

\* Of a truncated datagram at most the port is believed.
Truncated(n) ==
    \/ n < 2 /\ outcome = <<"data">>
    \/ n \in 2..3 /\ outcome = <<"exception">>
    \/ n \in 4..7 /\ outcome = <<"link", [address |-> <<0, 0, 0, 0>>, port |-> want.port]>>

\* The proxy connects to, or links, exactly the address that the program wanted, two
\* languages, three byte orders and two layouts agreeing, or no part of it.
AddressArrives ==
    outcome # <<"none">> =>
        IF Whole THEN outcome = <<"link", want>> ELSE Truncated(Len(wire))

=============================================================================
