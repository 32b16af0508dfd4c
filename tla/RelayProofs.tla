----------------------------- MODULE RelayProofs -----------------------------
(***************************************************************************)
(* Theorems about ClientMain and its ClientRelay.  Of Handshake, for every *)
(* way to cut a stream of any length into chunks and every outcome of the  *)
(* relay's connections; with AddressFrame, from the hook's call to the     *)
(* relay's.  Of RelaySession, for connections of any length: each          *)
(* direction, from the socket of one session to the socket of the other,   *)
(* implements the safety part of Pipe.                                     *)
(***************************************************************************)
EXTENDS Handshake, Integers, SequenceTheorems, TLAPS

CONSTANTS
    MaxChunks,              \* of RelaySession
    Addresses, Ports        \* of AddressFrame

VARIABLES               \* of RelaySession, "relay" is relaySession here
    main, relaySession,
    mainArrived, mainProcessed, relayAccepted, relaySent,
    relayArrived, relayProcessed, mainAccepted, mainSent,
    mainWork, relayWork

VARIABLES want, protocol, wire, outcome         \* of AddressFrame

Hook == INSTANCE AddressFrame

Session == INSTANCE RelaySession WITH relay <- relaySession

-----------------------------------------------------------------------------
(* The handshake.                                                          *)

HeaderBytes == [1..headerSize -> Nat]
Interval    == [from : Nat, to : Nat]

\* The bytes of the header that lie in chunks before the current one.
Held == chunk.from - 1

\* Where the current chunk lies in the stream, and what is known of its size
\* once a header has been read from it.
ChunkInv ==
    /\ chunk.from >= 1
    /\ chunk.from + chunk.len = dataLen + 1
    /\ pc # "idle" => chunk.len >= 1
    /\ pc \in {"connect", "result"} => chunk.len >= headerLen /\ attempts # << >>
    /\ attempts # << >> => dataLen >= headerSize
    /\ appendHeader => tempHeaderOffset >= 1

\* Before the first attempt tempHeader holds the beginning of the stream.
HeaderInv ==
    /\ attempts = << >> =>
          /\ pc \in {"idle", "loop"}
          /\ ~failed /\ ~handshakeComplete /\ ~dropped /\ ~disconnects
          /\ forwarded = << >> /\ readOffset = 0
          /\ tempHeaderOffset = IF pc = "idle" THEN dataLen ELSE Held
          /\ appendHeader <=> tempHeaderOffset # 0
          /\ \A i \in 1..tempHeaderOffset : tempHeader[i] = i
    /\ FirstAttemptIsHeader

\* After a first attempt that does not fail, the next byte to forward is the one
\* at readOffset in the current chunk, or the first of the next chunk.
PayloadInv ==
    ~failed /\ attempts # << >> =>
        /\ pc \in {"connect", "result"} =>
              /\ ~handshakeComplete /\ forwarded = << >> /\ readOffset = 0
              /\ Held + headerLen = headerSize
              /\ ~dropped /\ ~disconnects
        /\ pc \notin {"connect", "result"} => handshakeComplete
        /\ handshakeComplete /\ relay = "up" => ~dropped /\ ~disconnects
        /\ handshakeComplete /\ ~dropped /\ ~disconnects =>
              /\ pc = "idle" => NextByte = dataLen + 1 /\ readOffset = 0
              /\ pc \in {"loop", "send"} =>
                    chunk.from + readOffset = NextByte /\ readOffset <= chunk.len
        /\ pc # "crash"

Contiguous ==
    /\ forwarded # << >> => forwarded[1].from = headerSize + 1
    /\ \A i \in 1..Len(forwarded) - 1 : forwarded[i + 1].from = forwarded[i].to + 1

\* What has been forwarded lies before the current chunk.
OrderInv ==
    /\ \A i \in 1..Len(forwarded) : forwarded[i].to <= dataLen
    /\ pc # "idle" => \A i \in 1..Len(forwarded) : forwarded[i].to < chunk.from
    /\ NeverTwice

IInv == TypeOK /\ ChunkInv /\ HeaderInv /\ PayloadInv /\ (~failed => Contiguous) /\ OrderInv

-----------------------------------------------------------------------------
LEMMA InitIInv == Init => IInv
<1> SUFFICES ASSUME Init PROVE IInv
    OBVIOUS
<1>1. Len(attempts) = 0 /\ Len(forwarded) = 0
      BY DEF Init
<1>2. TypeOK
  <2>1. tempHeader \in [1..headerSize -> Nat] /\ tempHeaderOffset \in 0..headerSize - 1
        BY DEF Init, headerSize
  <2>2. chunk \in [from : Nat, len : Nat]
        BY DEF Init
  <2>3. attempts \in Seq([1..headerSize -> Nat]) /\ forwarded \in Seq([from : Nat, to : Nat])
        BY EmptySeq DEF Init
  <2> QED BY <2>1, <2>2, <2>3 DEF Init, TypeOK
<1>3. ChunkInv /\ HeaderInv /\ PayloadInv
      BY DEF Init, ChunkInv, HeaderInv, PayloadInv, FirstAttemptIsHeader, Held
<1>4. Contiguous /\ OrderInv
      BY <1>1 DEF Init, Contiguous, OrderInv, NeverTwice
<1> QED BY <1>2, <1>3, <1>4 DEF IInv

LEMMA HeaderLen == TypeOK /\ ChunkInv => headerLen \in 1..headerSize /\ headerLen \in Nat
BY SMTT(20) DEF TypeOK, ChunkInv, headerLen, headerSize

LEMMA FilledType ==
    ASSUME TypeOK, NEW n \in Nat, chunk.from >= 1 PROVE Filled(n) \in HeaderBytes
<1>1. /\ chunk.from \in Nat /\ tempHeaderOffset \in Nat
      /\ \A i \in 1..headerSize : tempHeader[i] \in Nat
      BY DEF TypeOK, headerSize
<1>2. \A i \in tempHeaderOffset + 1 .. tempHeaderOffset + n :
         chunk.from + (i - tempHeaderOffset) - 1 \in Nat
      BY <1>1
<1> QED BY <1>1, <1>2 DEF Filled, HeaderBytes

LEMMA TypeStep == IInv /\ [Next]_vars => TypeOK'
<1> SUFFICES ASSUME IInv, [Next]_vars PROVE TypeOK'
    OBVIOUS
<1> USE DEF history, headerVars
<1>0. TypeOK /\ ChunkInv /\ headerLen \in 1..headerSize
      BY HeaderLen DEF IInv
<1>1. ASSUME NEW n \in 1..MaxChunk, Packet(n) PROVE TypeOK'
      BY <1>0, <1>1, HandshakeBounds DEF Packet, TypeOK
<1>2. CASE RelayGone \/ BadOffset \/ Forward \/ BadHeader \/ RelayDown
      BY <1>0, <1>2 DEF RelayGone, BadOffset, Forward, BadHeader, RelayDown, TypeOK
<1>3. CASE RelaySend
  <2>1. [from |-> chunk.from + readOffset, to |-> chunk.from + chunk.len - 1] \in Interval
        BY <1>0, SMTT(20) DEF TypeOK, ChunkInv, Interval
  <2>2. forwarded \in Seq(Interval)
        BY <1>0 DEF TypeOK, Interval
  <2>3. forwarded' \in Seq(Interval)
        BY <1>3, <2>1, <2>2, AppendProperties DEF RelaySend
  <2> QED BY <1>0, <1>3, <2>3 DEF RelaySend, TypeOK, Interval
<1>4. CASE ShortHeader
  <2>1. attempts = << >> /\ chunk.len \in Nat /\ dataLen < headerSize /\ pc = "loop"
        /\ tempHeaderOffset' = tempHeaderOffset + chunk.len
        BY <1>0, <1>4 DEF ShortHeader, ChunkInv, TypeOK, headerSize
  <2>2. tempHeaderOffset + chunk.len = dataLen
        BY <1>0, <2>1 DEF IInv, HeaderInv, ChunkInv, Held, TypeOK
  <2>3. tempHeader' \in HeaderBytes
        BY <1>0, <1>4, FilledType DEF ShortHeader, ChunkInv, TypeOK
  <2>4. tempHeaderOffset' \in 0..headerSize - 1
    <3>1. dataLen \in Nat /\ dataLen < 6 /\ tempHeaderOffset' = dataLen
          BY <1>0, <2>1, <2>2 DEF TypeOK, headerSize
    <3> QED BY <3>1 DEF headerSize
  <2> QED BY <1>0, <1>4, <2>3, <2>4 DEF ShortHeader, TypeOK, HeaderBytes
<1>5. CASE ReadHeader
  <2>1. Filled(headerLen) \in HeaderBytes
        BY <1>0, FilledType DEF ChunkInv, headerSize
  <2>2. ChunkHeader \in HeaderBytes
    <3>1. chunk.from \in Nat /\ chunk.from >= 1
          BY <1>0 DEF ChunkInv, TypeOK
    <3>2. \A i \in 1..headerSize : chunk.from + i - 1 \in Nat
          BY <3>1 DEF headerSize
    <3> QED BY <3>2 DEF ChunkHeader, HeaderBytes
  <2>3. tempHeader' \in HeaderBytes
        BY <1>0, <1>5, <2>1 DEF ReadHeader, TypeOK, HeaderBytes
  <2>4. attempts' \in Seq(HeaderBytes)
        BY <1>0, <1>5, <2>2, <2>3, AppendProperties DEF ReadHeader, TypeOK, HeaderBytes
  <2> QED BY <1>0, <1>5, <2>3, <2>4 DEF ReadHeader, TypeOK, HeaderBytes
<1>6. ASSUME NEW o \in {"up", "down"}, Connect(o) PROVE TypeOK'
      BY <1>0, <1>6 DEF Connect, TypeOK
<1>7. CASE Result
  <2>1. headerLen \in Nat /\ readOffset + headerLen \in Nat
        BY <1>0 DEF TypeOK, headerSize
  <2> QED BY <1>0, <1>7, <2>1 DEF Result, TypeOK
<1>8. CASE UNCHANGED vars
      BY <1>0, <1>8 DEF vars, TypeOK
<1> QED BY <1>1, <1>2, <1>3, <1>4, <1>5, <1>6, <1>7, <1>8 DEF Next, AsyncRecvProcess

LEMMA ChunkStep == IInv /\ [Next]_vars => ChunkInv'
<1> SUFFICES ASSUME IInv, [Next]_vars PROVE ChunkInv'
    OBVIOUS
<1> USE DEF history, headerVars, headerLen
<1>0. TypeOK /\ ChunkInv /\ headerLen \in 1..headerSize
      BY HeaderLen DEF IInv
<1>1. ASSUME NEW n \in 1..MaxChunk, Packet(n) PROVE ChunkInv'
      BY <1>0, <1>1, HandshakeBounds DEF Packet, TypeOK, ChunkInv, headerSize
<1>2. CASE RelayGone \/ BadOffset \/ Forward \/ BadHeader \/ RelayDown \/ RelaySend
  <2>1. /\ UNCHANGED <<dataLen, chunk, headerVars, attempts>>
        /\ pc' \in {"connect", "result"} => pc' = pc
        /\ pc' # "idle" => pc # "idle"
        BY <1>2 DEF RelayGone, BadOffset, Forward, BadHeader, RelayDown, RelaySend
  <2> QED BY <1>0, <2>1 DEF ChunkInv
<1>3. CASE ShortHeader
  <2>1. /\ UNCHANGED <<dataLen, chunk, attempts>> /\ pc = "loop" /\ pc' = "idle"
        /\ tempHeaderOffset' = tempHeaderOffset + chunk.len
        BY <1>3 DEF ShortHeader
  <2> QED BY <1>0, <2>1 DEF ChunkInv, TypeOK
<1>4. CASE ReadHeader
  <2>1. /\ UNCHANGED <<dataLen, chunk, appendHeader, tempHeaderOffset>>
        /\ pc = "loop" /\ pc' = "connect" /\ dataLen >= headerSize /\ chunk.len >= headerLen
        BY <1>4 DEF ReadHeader
  <2>2. attempts' # << >>
        BY <1>0, <1>4, TypeStep DEF ReadHeader, TypeOK
  <2> QED BY <1>0, <2>1, <2>2 DEF ChunkInv
<1>5. CASE (\E o \in {"up", "down"} : Connect(o)) \/ Result
      BY <1>0, <1>5, SMTT(20) DEF Connect, Result, TypeOK, ChunkInv
<1>6. CASE UNCHANGED vars
      BY <1>0, <1>6 DEF vars, ChunkInv
<1> QED BY <1>1, <1>2, <1>3, <1>4, <1>5, <1>6 DEF Next, AsyncRecvProcess

LEMMA HeaderStep == IInv /\ [Next]_vars => HeaderInv'
<1> SUFFICES ASSUME IInv, [Next]_vars PROVE HeaderInv'
    OBVIOUS
<1> USE DEF history, headerVars, Held
<1>0. TypeOK /\ ChunkInv /\ HeaderInv /\ headerLen \in 1..headerSize
      BY HeaderLen DEF IInv
<1>1. ASSUME NEW n \in 1..MaxChunk, Packet(n) PROVE HeaderInv'
      BY <1>0, <1>1, HandshakeBounds DEF Packet, TypeOK, HeaderInv, FirstAttemptIsHeader
<1>2. CASE RelayGone \/ BadOffset \/ Forward \/ RelaySend
  <2>1. attempts # << >> /\ UNCHANGED attempts
        BY <1>0, <1>2 DEF RelayGone, BadOffset, Forward, RelaySend, HeaderInv
  <2> QED BY <1>0, <2>1 DEF HeaderInv, FirstAttemptIsHeader
<1>3. CASE BadHeader
  <2>1. attempts # << >>
    <3> SUFFICES ASSUME attempts = << >> PROVE FALSE
        OBVIOUS
    <3>1. pc = "loop" /\ tempHeaderOffset = Held /\ chunk.len + Held >= headerSize
          BY <1>0, <1>3 DEF BadHeader, HeaderInv, ChunkInv, TypeOK
    <3> QED BY <1>0, <1>3, <3>1, SMTT(20) DEF BadHeader, HeaderInv, headerLen, TypeOK, headerSize
  <2> QED BY <1>0, <1>3, <2>1 DEF BadHeader, HeaderInv, FirstAttemptIsHeader
<1>4. CASE ShortHeader
  <2>1. /\ attempts = << >> /\ UNCHANGED attempts
        BY <1>0, <1>4 DEF ShortHeader, ChunkInv, TypeOK, headerSize
  <2>2. /\ tempHeaderOffset = chunk.from - 1 /\ pc = "loop"
        /\ tempHeaderOffset + chunk.len = dataLen
        BY <1>0, <1>4, <2>1 DEF ShortHeader, HeaderInv, ChunkInv, TypeOK
  <2>3. \A i \in 1..dataLen : tempHeader'[i] = i
    <3>1. tempHeader' = Filled(chunk.len) /\ chunk.len \in Nat /\ chunk.from \in Nat
          /\ tempHeaderOffset \in Nat /\ dataLen \in Nat /\ dataLen < headerSize
          BY <1>0, <1>4 DEF ShortHeader, TypeOK
    <3>2. \A i \in 1..tempHeaderOffset : tempHeader[i] = i
          BY <1>0, <2>1 DEF HeaderInv
    <3>3. TAKE i \in 1..dataLen
    <3>4. i \in 1..headerSize
          BY <3>1, <3>3 DEF headerSize
    <3>5. tempHeader'[i] = IF i \in tempHeaderOffset + 1 .. tempHeaderOffset + chunk.len
                           THEN chunk.from + (i - tempHeaderOffset) - 1 ELSE tempHeader[i]
          BY <3>1, <3>4 DEF Filled
    <3> QED BY <2>2, <3>1, <3>2, <3>3, <3>5
  <2>4. tempHeaderOffset' = dataLen /\ dataLen # 0 /\ dataLen' = dataLen /\ pc' = "idle"
        /\ appendHeader'
        BY <1>0, <1>4, <2>2 DEF ShortHeader, ChunkInv, TypeOK
  <2> QED BY <1>0, <1>4, <2>1, <2>3, <2>4 DEF ShortHeader, HeaderInv, FirstAttemptIsHeader
<1>5. CASE ReadHeader
  <2>1. attempts' # << >>
        BY <1>0, <1>5, TypeStep, SMTT(20) DEF ReadHeader, TypeOK
  <2>2. CASE attempts # << >>
    <3>1. attempts'[1] = attempts[1]
          BY <1>0, <1>5, <2>2, AppendProperties, LenProperties, EmptySeq
          DEF ReadHeader, TypeOK
    <3> QED BY <1>0, <2>1, <2>2, <3>1 DEF HeaderInv, FirstAttemptIsHeader
  <2>3. CASE attempts = << >>
    <3>1. /\ tempHeaderOffset = chunk.from - 1
          /\ appendHeader <=> tempHeaderOffset # 0
          /\ \A i \in 1..tempHeaderOffset : tempHeader[i] = i
          BY <1>0, <1>5, <2>3 DEF ReadHeader, HeaderInv
    <3>2. attempts'[1] = IF headerLen < headerSize THEN tempHeader' ELSE ChunkHeader
          BY <1>5, <2>3 DEF ReadHeader
    <3>3. CASE appendHeader
      <4>1. tempHeader' = Filled(headerLen) /\ headerLen = headerSize - tempHeaderOffset
            /\ headerLen < headerSize
        <5>1. tempHeaderOffset \in 0..headerSize - 1 /\ tempHeaderOffset # 0
              BY <1>0, <3>1, <3>3 DEF TypeOK
        <5> QED BY <1>5, <3>3, <5>1 DEF ReadHeader, headerLen, headerSize
      <4>2. Filled(headerLen) = Header
        <5>1. tempHeaderOffset \in 0..headerSize - 1 /\ chunk.from \in Nat
              BY <1>0 DEF TypeOK
        <5>2. \A i \in 1..headerSize : Filled(headerLen)[i] = i
          <6>1. TAKE i \in 1..headerSize
          <6>2. Filled(headerLen)[i] = IF i \in tempHeaderOffset + 1 .. tempHeaderOffset + headerLen
                                       THEN chunk.from + (i - tempHeaderOffset) - 1
                                       ELSE tempHeader[i]
                BY <6>1 DEF Filled
          <6> QED BY <3>1, <4>1, <5>1, <6>1, <6>2 DEF headerSize
        <5> QED BY <5>2 DEF Filled, Header
      <4> QED BY <2>1, <3>2, <4>1, <4>2 DEF HeaderInv, FirstAttemptIsHeader
    <3>4. CASE ~appendHeader
      <4>1. headerLen = headerSize /\ chunk.from = 1
            BY <1>0, <3>1, <3>4 DEF headerLen, ChunkInv, TypeOK
      <4>2. ChunkHeader = Header
            BY <4>1 DEF ChunkHeader, Header, headerSize
      <4> QED BY <2>1, <3>2, <4>1, <4>2 DEF HeaderInv, FirstAttemptIsHeader, headerSize
    <3> QED BY <3>3, <3>4
  <2> QED BY <2>2, <2>3
<1>6. CASE (\E o \in {"up", "down"} : Connect(o)) \/ Result
  <2>1. attempts # << >> /\ UNCHANGED attempts
        BY <1>0, <1>6 DEF Connect, Result, HeaderInv
  <2> QED BY <1>0, <2>1 DEF HeaderInv, FirstAttemptIsHeader
<1>7. CASE RelayDown
      BY <1>0, <1>7 DEF RelayDown, HeaderInv, FirstAttemptIsHeader
<1>8. CASE UNCHANGED vars
      BY <1>0, <1>8 DEF vars, HeaderInv, FirstAttemptIsHeader
<1> QED BY <1>1, <1>2, <1>3, <1>4, <1>5, <1>6, <1>7, <1>8 DEF Next, AsyncRecvProcess

LEMMA PayloadStep == IInv /\ [Next]_vars => PayloadInv'
<1> SUFFICES ASSUME IInv, [Next]_vars PROVE PayloadInv'
    OBVIOUS
<1> USE DEF history, headerVars, Held
<1>0. TypeOK /\ ChunkInv /\ HeaderInv /\ PayloadInv /\ headerLen \in 1..headerSize
      BY HeaderLen DEF IInv
<1>1. ASSUME NEW n \in 1..MaxChunk, Packet(n) PROVE PayloadInv'
  <2>1. /\ UNCHANGED <<readOffset, handshakeComplete, relay, attempts, forwarded, failed, dropped,
                        disconnects>>
        /\ pc = "idle" /\ pc' = "loop" /\ chunk'.from = dataLen + 1 /\ chunk'.len = n
        /\ n \in Nat
        BY <1>1, HandshakeBounds DEF Packet
  <2>2. NextByte' = NextByte
        BY <2>1 DEF NextByte
  <2> QED BY <1>0, <2>1, <2>2 DEF PayloadInv, TypeOK
<1>2. CASE RelayGone
      BY <1>0, <1>2 DEF RelayGone, PayloadInv, NextByte
<1>3. CASE BadOffset
      BY <1>0, <1>3 DEF BadOffset, PayloadInv, HeaderInv, TypeOK
<1>4. CASE Forward
      BY <1>0, <1>4 DEF Forward, PayloadInv, NextByte
<1>5. CASE RelaySend
  <2>1. /\ UNCHANGED <<attempts, failed, handshakeComplete, chunk, dataLen, relay, disconnects>>
        /\ pc = "send" /\ pc' = "idle" /\ readOffset' = 0
        BY <1>5 DEF RelaySend
  <2>2. CASE relay = "up"
    <3>1. /\ forwarded' = Append(forwarded, [from |-> chunk.from + readOffset,
                                             to |-> chunk.from + chunk.len - 1])
          /\ UNCHANGED dropped
          BY <1>5, <2>2 DEF RelaySend
    <3>2. /\ [from |-> chunk.from + readOffset, to |-> chunk.from + chunk.len - 1] \in Interval
          /\ forwarded \in Seq(Interval)
          BY <1>0, SMTT(20) DEF TypeOK, ChunkInv, Interval
    <3>3. /\ Len(forwarded') = Len(forwarded) + 1 /\ forwarded' # << >>
          /\ forwarded'[Len(forwarded')].to = chunk.from + chunk.len - 1
          BY <3>1, <3>2, AppendProperties
    <3>4. NextByte' = chunk.from + chunk.len - 1 + 1
          BY <3>3 DEF NextByte
    <3>5. NextByte' = dataLen + 1
          BY <1>0, <3>4 DEF ChunkInv, TypeOK
    <3> QED BY <1>0, <2>1, <3>1, <3>5 DEF PayloadInv
  <2>3. CASE relay # "up"
    <3>1. dropped'
          BY <1>5, <2>3 DEF RelaySend
    <3> QED BY <1>0, <2>1, <2>3, <3>1 DEF PayloadInv
  <2> QED BY <2>2, <2>3
<1>6. CASE ShortHeader
  <2>1. attempts' = << >>
        BY <1>0, <1>6 DEF ShortHeader, ChunkInv, TypeOK, headerSize
  <2> QED BY <2>1 DEF PayloadInv
<1>7. CASE BadHeader
  <2>1. UNCHANGED <<failed, attempts>> /\ pc = "loop" /\ ~handshakeComplete
        BY <1>7 DEF BadHeader
  <2> QED BY <1>0, <2>1, HeaderStep, <1>7 DEF BadHeader, PayloadInv, HeaderInv
<1>8. CASE ReadHeader
  <2>1. /\ UNCHANGED <<failed, handshakeComplete, forwarded, readOffset, dropped, disconnects,
                        chunk, appendHeader, tempHeaderOffset>>
        /\ ~handshakeComplete /\ pc = "loop" /\ pc' = "connect"
        BY <1>8 DEF ReadHeader
  <2>2. CASE attempts = << >>
    <3>1. Held = tempHeaderOffset /\ (appendHeader <=> tempHeaderOffset # 0)
          BY <1>0, <2>1, <2>2 DEF HeaderInv
    <3>2. Held + headerLen = headerSize
          BY <1>0, <3>1, SMTT(20) DEF headerLen, TypeOK, headerSize
    <3>3. headerLen' = headerLen /\ Held' = Held
          BY <2>1 DEF headerLen
    <3> QED BY <1>0, <2>1, <2>2, <3>2, <3>3 DEF HeaderInv, PayloadInv
  <2>3. CASE attempts # << >>
        BY <1>0, <2>1, <2>3 DEF PayloadInv
  <2> QED BY <2>2, <2>3
<1>9. ASSUME NEW o \in {"up", "down"}, Connect(o) PROVE PayloadInv'
      BY <1>0, <1>9 DEF Connect, PayloadInv, ChunkInv, headerLen
<1>10. CASE Result
  <2>1. /\ UNCHANGED <<dataLen, headerVars, chunk, relay, attempts, forwarded, dropped, disconnects>>
        /\ pc = "result" /\ handshakeComplete' = (relay = "up")
        /\ failed' = (failed \/ relay # "up") /\ pc' \in {"loop", "idle"}
        BY <1>10 DEF Result
  <2>2. SUFFICES ASSUME ~failed' PROVE PayloadInv'
        BY DEF PayloadInv
  <2>3. /\ relay = "up" /\ forwarded = << >> /\ readOffset = 0 /\ ~dropped /\ ~disconnects
        /\ chunk.from - 1 + headerLen = headerSize /\ chunk.len >= headerLen
        BY <1>0, <2>1, <2>2 DEF PayloadInv, ChunkInv
  <2>4. NextByte' = headerSize + 1
        BY <2>1, <2>3 DEF NextByte
  <2>5. CASE chunk.len > headerLen
    <3>1. readOffset' = headerLen /\ pc' = "loop"
          BY <1>0, <1>10, <2>3, <2>5 DEF Result, headerSize
    <3>2. chunk.from + headerLen = headerSize + 1
          BY <1>0, <2>3, SMTT(20) DEF TypeOK, headerSize
    <3> QED BY <1>0, <2>1, <2>3, <2>4, <2>5, <3>1, <3>2 DEF PayloadInv
  <2>6. CASE ~(chunk.len > headerLen)
    <3>1. readOffset' = 0 /\ pc' = "idle"
          BY <1>10, <2>3, <2>6 DEF Result
    <3>2. chunk.len = headerLen
          BY <1>0, <2>3, <2>6 DEF TypeOK, headerSize
    <3>3. dataLen + 1 = headerSize + 1
      <4>1. chunk.from \in Nat /\ chunk.len \in Nat /\ dataLen \in Nat
            /\ chunk.from + chunk.len = dataLen + 1
            BY <1>0 DEF TypeOK, ChunkInv
      <4> QED BY <2>3, <3>2, <4>1 DEF headerSize
    <3> QED BY <2>1, <2>3, <2>4, <3>1, <3>3 DEF PayloadInv
  <2> QED BY <2>5, <2>6
<1>11. CASE RelayDown
      BY <1>0, <1>11 DEF RelayDown, PayloadInv, NextByte, headerLen
<1>12. CASE UNCHANGED vars
      BY <1>0, <1>12 DEF vars, PayloadInv, NextByte, headerLen
<1> QED BY <1>1, <1>2, <1>3, <1>4, <1>5, <1>6, <1>7, <1>8, <1>9, <1>10, <1>11, <1>12
        DEF Next, AsyncRecvProcess

\* Steps other than RelaySend forward nothing.
LEMMA OthersForwardNothing ==
    [Next]_vars => RelaySend \/ UNCHANGED forwarded
BY DEF Next, AsyncRecvProcess, Packet, RelayGone, BadOffset, Forward, ShortHeader, BadHeader,
       ReadHeader, Connect, Result, RelayDown, vars, history

LEMMA FailedStays == TypeOK /\ [Next]_vars => (failed => failed')
BY DEF Next, AsyncRecvProcess, Packet, RelayGone, BadOffset, Forward, RelaySend, ShortHeader,
       BadHeader, ReadHeader, Connect, Result, RelayDown, vars, history, TypeOK

LEMMA ContiguousStep == IInv /\ [Next]_vars => (~failed' => Contiguous')
<1> SUFFICES ASSUME IInv, [Next]_vars, ~failed' PROVE Contiguous'
    OBVIOUS
<1>1. ~failed /\ Contiguous /\ TypeOK /\ PayloadInv /\ ChunkInv /\ HeaderInv
      BY FailedStays DEF IInv
<1>2. CASE RelaySend /\ relay = "up"
  <2> DEFINE e == [from |-> chunk.from + readOffset, to |-> chunk.from + chunk.len - 1]
  <2>1. /\ forwarded' = Append(forwarded, e) /\ pc = "send"
        /\ attempts # << >>
        BY <1>1, <1>2 DEF RelaySend, HeaderInv
  <2>2. e \in Interval /\ forwarded \in Seq(Interval) /\ e.from = chunk.from + readOffset
        BY <1>1 DEF TypeOK, ChunkInv, Interval
  <2>3. e.from = NextByte
        BY <1>1, <1>2, <2>1, <2>2 DEF PayloadInv
  <2> HIDE DEF e
  <2>4. /\ Len(forwarded') = Len(forwarded) + 1 /\ Len(forwarded) \in Nat
        /\ forwarded'[Len(forwarded) + 1] = e
        /\ \A i \in 1..Len(forwarded) : forwarded'[i] = forwarded[i]
        BY <2>1, <2>2, AppendProperties, LenProperties
  <2>5. CASE forwarded = << >>
        BY <2>3, <2>4, <2>5 DEF NextByte, Contiguous
  <2>6. CASE forwarded # << >>
    <3>1. Len(forwarded) > 0 /\ forwarded'[1] = forwarded[1]
          BY <2>2, <2>4, <2>6, EmptySeq
    <3>2. \A i \in 1..Len(forwarded) - 1 : forwarded'[i + 1].from = forwarded'[i].to + 1
          BY <1>1, <2>4 DEF Contiguous
    <3>3. forwarded'[Len(forwarded) + 1].from = forwarded'[Len(forwarded)].to + 1
          BY <2>3, <2>4, <2>6, <3>1 DEF NextByte
    <3> QED BY <1>1, <2>4, <2>6, <3>1, <3>2, <3>3 DEF Contiguous
  <2> QED BY <2>5, <2>6
<1>3. CASE UNCHANGED forwarded
      BY <1>1, <1>3 DEF Contiguous
<1> QED BY <1>2, <1>3, OthersForwardNothing DEF RelaySend

LEMMA OrderStep == IInv /\ [Next]_vars => OrderInv'
<1> SUFFICES ASSUME IInv, [Next]_vars PROVE OrderInv'
    OBVIOUS
<1>1. TypeOK /\ ChunkInv /\ OrderInv
      BY DEF IInv
<1>2. forwarded \in Seq(Interval) /\ Len(forwarded) \in Nat
      /\ \A i \in 1..Len(forwarded) : forwarded[i] \in Interval
      BY <1>1, LenProperties, ElementOfSeq DEF TypeOK, Interval
<1>3. CASE RelaySend /\ relay = "up"
  <2> DEFINE e == [from |-> chunk.from + readOffset, to |-> chunk.from + chunk.len - 1]
  <2>1. forwarded' = Append(forwarded, e) /\ pc = "send" /\ pc' = "idle" /\ dataLen' = dataLen
        BY <1>3 DEF RelaySend
  <2>2. e \in Interval /\ e.from >= chunk.from /\ e.to = dataLen
        BY <1>1 DEF TypeOK, ChunkInv, Interval
  <2> HIDE DEF e
  <2>3. /\ Len(forwarded') = Len(forwarded) + 1
        /\ forwarded'[Len(forwarded) + 1] = e
        /\ \A i \in 1..Len(forwarded) : forwarded'[i] = forwarded[i]
        BY <1>2, <2>1, <2>2, AppendProperties
  <2>4. \A i \in 1..Len(forwarded) : forwarded'[i].to < e.from
        BY <1>1, <1>2, <2>1, <2>2, <2>3, SMTT(20) DEF OrderInv, TypeOK, Interval
  <2>5. NeverTwice'
    <3>1. SUFFICES ASSUME NEW i \in 1..Len(forwarded'), NEW j \in 1..Len(forwarded'), i < j
                   PROVE  forwarded'[i].to < forwarded'[j].from
          BY DEF NeverTwice
    <3>2. i \in 1..Len(forwarded)
          BY <1>2, <2>3, <3>1
    <3>3. CASE j = Len(forwarded) + 1
          BY <2>3, <2>4, <3>2, <3>3
    <3>4. CASE j \in 1..Len(forwarded)
          BY <1>1, <2>3, <3>1, <3>2, <3>4 DEF OrderInv, NeverTwice
    <3> QED BY <1>2, <2>3, <3>1, <3>3, <3>4
  <2>6. \A i \in 1..Len(forwarded') : forwarded'[i].to <= dataLen'
    <3>1. TAKE i \in 1..Len(forwarded')
    <3>2. CASE i = Len(forwarded) + 1
          BY <1>1, <2>1, <2>2, <2>3, <3>2 DEF TypeOK
    <3>3. CASE i \in 1..Len(forwarded)
          BY <1>1, <2>1, <2>3, <3>3 DEF OrderInv
    <3> QED BY <1>2, <2>3, <3>1, <3>2, <3>3
  <2> QED BY <2>1, <2>5, <2>6 DEF OrderInv
<1>4. ASSUME NEW n \in 1..MaxChunk, Packet(n) PROVE OrderInv'
  <2>1. /\ UNCHANGED forwarded /\ pc = "idle" /\ chunk'.from = dataLen + 1
        /\ dataLen' = dataLen + n /\ n \in Nat /\ dataLen \in Nat
        BY <1>1, <1>4, HandshakeBounds DEF Packet, history, TypeOK
  <2> QED BY <1>1, <1>2, <2>1, SMTT(20) DEF OrderInv, NeverTwice, Interval
<1>5. CASE UNCHANGED <<forwarded, dataLen, chunk>> /\ (pc' # "idle" => pc # "idle")
      BY <1>1, <1>5 DEF OrderInv, NeverTwice
<1> QED BY <1>3, <1>4, <1>5
        DEF Next, AsyncRecvProcess, RelayGone, BadOffset, Forward, RelaySend, ShortHeader,
            BadHeader, ReadHeader, Connect, Result, RelayDown, vars, history

LEMMA InvStep == IInv /\ [Next]_vars => IInv'
BY TypeStep, ChunkStep, HeaderStep, PayloadStep, ContiguousStep, OrderStep DEF IInv

\* However the stream is cut into chunks and however often a relay fails to
\* connect, the fields of ClientMain have their types, the first relay is
\* connected to the address in the first six bytes, and no byte reaches a relay
\* twice or out of order.
THEOREM HandshakeCorrect == Spec => [](TypeOK /\ FirstAttemptIsHeader /\ NeverTwice)
<1>1. IInv => TypeOK /\ FirstAttemptIsHeader /\ NeverTwice
      BY DEF IInv, HeaderInv, OrderInv
<1> QED BY <1>1, InitIInv, InvStep, PTL DEF Spec

\* Until a relay fails to connect or goes down, everything behind the header is
\* forwarded without a gap.
THEOREM PayloadCorrect == Spec => []PayloadForwarded
<1>1. IInv => PayloadForwarded
  <2> SUFFICES ASSUME IInv, ~failed PROVE PayloadForwarded
      BY DEF PayloadForwarded
  <2> QED BY DEF IInv, PayloadForwarded, Contiguous, PayloadInv, HeaderInv
<1> QED BY <1>1, InitIInv, InvStep, PTL DEF Spec

\* The negative buffer length that ends the process needs a failed attempt.
THEOREM CrashCorrect == Spec => []CrashNeedsFailure
<1>1. IInv => CrashNeedsFailure
      BY DEF IInv, CrashNeedsFailure, PayloadInv, HeaderInv
<1> QED BY <1>1, InitIInv, InvStep, PTL DEF Spec

-----------------------------------------------------------------------------
(* The hook before it.                                                     *)

LEMMA Swapped == \A a, b, c, d :
    /\ Hook!SwapBytes(<<a, b>>) = <<b, a>>
    /\ Hook!SwapBytes(<<a, b, c, d>>) = <<d, c, b, a>>
BY DEF Hook!SwapBytes

\* Six bytes that are those of the frame are read as its address.
LEMMA FrameRead ==
    ASSUME Hook!AddressAssumption, NEW e \in Hook!EndPoint,
           NEW buffer \in [1..6 -> Nat], \A i \in 1..6 : buffer[i] = Hook!Frame(e, 6)[i]
    PROVE  Hook!GetRelayEndPoint(buffer) = e
<1>1. PICK x \in Hook!Byte \X Hook!Byte \X Hook!Byte \X Hook!Byte, p \in Nat :
         e = [address |-> x, port |-> p]
  <2>1. Addresses \subseteq Hook!Byte \X Hook!Byte \X Hook!Byte \X Hook!Byte /\ Ports \subseteq Nat
    BY DEF Hook!AddressAssumption, Hook!Number
  <2>. QED  BY <2>1 DEF Hook!EndPoint
<1>2. PICK a, b, c, d \in Hook!Byte : x = <<a, b, c, d>>
  OBVIOUS
<1>3. PICK l \in Nat, h \in Nat : l = p % 256 /\ h = p \div 256 /\ p = l + 256 * h
  OBVIOUS
<1>4. Hook!Frame(e, 6) = <<h, l, d, c, b, a>>
  <2>1. Hook!sin_port(e) = <<h, l>>
    BY <1>1, <1>3, Swapped DEF Hook!sin_port, Hook!ToUShort
  <2>2. Hook!SwapBytes(Hook!s_addr(e)) = <<d, c, b, a>>
    BY <1>1, <1>2, Swapped DEF Hook!s_addr
  <2>. QED  BY <2>1, <2>2 DEF Hook!Frame, Hook!Layout
<1>5. /\ buffer[1] = h /\ buffer[2] = l /\ buffer[3] = d
      /\ buffer[4] = c /\ buffer[5] = b /\ buffer[6] = a
  BY <1>4
<1>6. Hook!UShort(Hook!SwapBytes(Hook!ToUInt16(buffer, 0))) = p
  <2>1. Hook!ToUInt16(buffer, 0) = <<h, l>>
    BY <1>5 DEF Hook!ToUInt16
  <2>2. Hook!SwapBytes(<<h, l>>) = <<l, h>>
    BY Swapped
  <2>. QED  BY <1>3, <2>1, <2>2 DEF Hook!UShort
<1>7. Hook!SwapBytes(Hook!ToUInt32(buffer, 2)) = x
  <2>1. Hook!ToUInt32(buffer, 2) = <<d, c, b, a>>
    BY <1>5 DEF Hook!ToUInt32
  <2>. QED  BY <1>2, <2>1, Swapped
<1>. QED  BY <1>1, <1>6, <1>7 DEF Hook!GetRelayEndPoint

\* The address from the hook to the relay: if the stream begins with the frame that
\* SendPatch writes for a TCP connection to e, then however TCP cuts it into chunks the
\* first relay that ClientMain connects is connected to e.
THEOREM AddressReachesRelay ==
    ASSUME Hook!AddressAssumption, NEW e \in Hook!EndPoint,
           NEW stream \in [Nat -> Nat], \A i \in 1..headerSize : stream[i] = Hook!Frame(e, 6)[i]
    PROVE  Spec => [](attempts # << >> =>
              Hook!GetRelayEndPoint([i \in 1..headerSize |-> stream[attempts[1][i]]]) = e)
<1>1. ASSUME FirstAttemptIsHeader, attempts # << >>
      PROVE  Hook!GetRelayEndPoint([i \in 1..headerSize |-> stream[attempts[1][i]]]) = e
  <2>. DEFINE buffer == [i \in 1..headerSize |-> stream[attempts[1][i]]]
  <2>1. attempts[1] = Header
    BY <1>1 DEF FirstAttemptIsHeader
  <2>2. buffer \in [1..6 -> Nat] /\ \A i \in 1..6 : buffer[i] = Hook!Frame(e, 6)[i]
    BY <2>1 DEF Header, headerSize
  <2>. HIDE DEF buffer
  <2>3. Hook!GetRelayEndPoint(buffer) = e
    BY <2>2, FrameRead
  <2>. QED  BY <2>3 DEF buffer
<1>. QED  BY <1>1, HandshakeCorrect, PTL

-----------------------------------------------------------------------------
(* The session after it.                                                   *)

\* q holds the first messages of p.
Begins(q, p) ==
    /\ Len(q) <= Len(p)
    /\ \A i \in 1..Len(q) : q[i] = p[i]

\* As long as the relay is not known to be down, everything ClientMain has
\* processed was accepted by Relay.Send, but for the packet in its hand.
UpInv ==
    /\ Begins(mainProcessed, mainArrived)
    /\ Begins(relaySent, relayAccepted)
    /\ mainWork = "disconnect" => relaySession = "down"
    /\ mainWork \in {"send", "post"} => Len(mainProcessed) > 0
    /\ relaySession # "down" =>
          /\ Begins(relayAccepted, mainProcessed)
          /\ Len(mainProcessed) =
                Len(relayAccepted) + (IF mainWork = "idle" THEN 0 ELSE 1)

DownInv ==
    /\ Begins(relayProcessed, relayArrived)
    /\ Begins(mainSent, mainAccepted)
    /\ relayWork = "post" => Len(relayProcessed) > 0
    /\ main # "down" =>
          /\ Begins(mainAccepted, relayProcessed)
          /\ Len(relayProcessed) =
                Len(mainAccepted) + (IF relayWork = "idle" THEN 0 ELSE 1)

\* The inductive invariant.
SessionInv == Session!TypeOK /\ UpInv /\ DownInv

-----------------------------------------------------------------------------
(* Facts about the two ways a sequence grows.                              *)

LEMMA ReceivedGrows ==
    ASSUME NEW S, NEW p \in Seq(S), NEW q \in Seq(S), Begins(q, p), NEW x \in S
    PROVE  /\ Append(p, x) \in Seq(S) /\ Len(Append(p, x)) = Len(p) + 1
           /\ Begins(q, Append(p, x))
BY AppendProperties, LenProperties DEF Begins

LEMMA PassedGrows ==
    ASSUME NEW S, NEW p \in Seq(S), NEW q \in Seq(S), Begins(q, p), Session!Waiting(p, q)
    PROVE  /\ Session!Passed(p, q) \in Seq(S) /\ Len(Session!Passed(p, q)) = Len(q) + 1
           /\ Begins(Session!Passed(p, q), p)
           /\ \A i \in 1..Len(q) : Session!Passed(p, q)[i] = q[i]
<1>1. /\ Len(p) \in Nat /\ Len(q) \in Nat
      /\ p[Len(q) + 1] \in S
  BY ElementOfSeq, LenProperties DEF Session!Waiting
<1>. QED  BY <1>1, AppendProperties DEF Begins, Session!Passed, Session!Waiting

\* The last message of p, appended to what lacks only that one, completes it.
LEMMA LastCompletes ==
    ASSUME NEW S, NEW p \in Seq(S), NEW q \in Seq(S), Len(p) > 0
    PROVE  /\ Append(q, Session!Last(p)) \in Seq(S) /\ Len(Append(q, Session!Last(p))) = Len(q) + 1
           /\ \A i \in 1..Len(q) : Append(q, Session!Last(p))[i] = q[i]
           /\ Begins(q, p) /\ Len(p) = Len(q) + 1 => Begins(Append(q, Session!Last(p)), p)
<1>1. Len(p) \in Nat /\ Len(q) \in Nat /\ Session!Last(p) \in S
  BY ElementOfSeq, LenProperties DEF Session!Last
<1>. QED  BY <1>1, AppendProperties DEF Begins, Session!Last

\* The two steps above, for the sequence that is read as well as for the one written.
LEMMA BeginsOfLonger ==
    ASSUME NEW S, NEW p \in Seq(S), NEW q \in Seq(S), NEW r \in Seq(S),
           Begins(q, p), Len(r) = Len(p) + 1, \A i \in 1..Len(p) : r[i] = p[i]
    PROVE  Begins(q, r)
<1>1. Len(p) \in Nat /\ Len(q) \in Nat
  BY LenProperties
<1>. QED  BY <1>1 DEF Begins

-----------------------------------------------------------------------------
(* The invariant.                                                          *)

LEMMA SessionInit == ASSUME Session!Init PROVE SessionInv
BY EmptySeq DEF Session!Init, SessionInv, Session!TypeOK, UpInv, DownInv, Begins

\* The messages of both directions have their type.
Streams ==
    /\ mainArrived \in Seq(Session!Chunks) /\ mainProcessed \in Seq(Session!Chunks)
    /\ relayAccepted \in Seq(Session!Chunks) /\ relaySent \in Seq(Session!Chunks)
    /\ relayArrived \in Seq(Session!Chunks) /\ relayProcessed \in Seq(Session!Chunks)
    /\ mainAccepted \in Seq(Session!Chunks) /\ mainSent \in Seq(Session!Chunks)

LEMMA StreamsOK == Session!TypeOK => Streams
BY DEF Session!TypeOK, Streams

LEMMA StreamsType ==
    ASSUME Streams, main \in {"up", "closing", "down"}, relaySession \in {"up", "closing", "down"},
           mainWork \in {"idle", "disconnect", "send", "post"}, relayWork \in {"idle", "post"}
    PROVE  Session!TypeOK
BY DEF Session!TypeOK, Streams

\* A step of one direction leaves the invariant of the other alone, as long as the
\* sessions stay as they are.
LEMMA DownUnchanged == ASSUME DownInv, UNCHANGED <<main, Session!downVars>> PROVE DownInv'
BY DEF DownInv, Begins, Session!downVars

LEMMA UpUnchanged == ASSUME UpInv, UNCHANGED <<relaySession, Session!upVars>> PROVE UpInv'
BY DEF UpInv, Begins, Session!upVars

LEMMA UpStep ==
    ASSUME SessionInv, Session!ChunksAssumption,
           Session!MainReceive \/ Session!Up
    PROVE  SessionInv'
<1>. USE Session!ChunksAssumption DEF Session!ChunksAssumption
<1>1. Session!TypeOK /\ UpInv /\ DownInv /\ Streams
  BY StreamsOK DEF SessionInv
<1>2. CASE Session!MainReceive
  <2>1. /\ mainArrived' = Append(mainArrived, Len(mainArrived) + 1)
        /\ Len(mainArrived) + 1 \in Session!Chunks
        /\ UNCHANGED <<main, relaySession, mainProcessed, relayAccepted, relaySent, mainWork, Session!downVars>>
    BY <1>1, <1>2, LenProperties DEF Session!MainReceive, Session!Chunks, Streams
  <2>2. mainArrived' \in Seq(Session!Chunks) /\ Begins(mainProcessed, mainArrived')
    BY <1>1, <2>1, ReceivedGrows DEF UpInv, Streams
  <2>3. UpInv'
    BY <1>1, <2>1, <2>2 DEF UpInv, Begins
  <2>4. Session!TypeOK'
    BY <1>1, <2>1, <2>2 DEF Session!TypeOK, Session!downVars
  <2>5. QED  BY <1>1, <2>1, <2>3, <2>4, DownUnchanged DEF SessionInv
<1>3. CASE Session!MainTake
  <2>1. /\ mainWork = "idle" /\ Session!Waiting(mainArrived, mainProcessed)
        /\ mainProcessed' = Session!Passed(mainArrived, mainProcessed)
        /\ mainWork' = IF relaySession = "down" THEN "disconnect" ELSE "send"
        /\ UNCHANGED <<main, relaySession, mainArrived, relayAccepted, relaySent, Session!downVars>>
    BY <1>3 DEF Session!MainTake
  <2>2. /\ mainProcessed' \in Seq(Session!Chunks) /\ Len(mainProcessed') = Len(mainProcessed) + 1
        /\ Begins(mainProcessed', mainArrived)
        /\ \A i \in 1..Len(mainProcessed) : mainProcessed'[i] = mainProcessed[i]
    BY <1>1, <2>1, PassedGrows DEF UpInv, Streams
  <2>3. relaySession # "down" => Begins(relayAccepted, mainProcessed')
    BY <1>1, <2>2, BeginsOfLonger DEF UpInv, Streams
  <2>4. Len(mainProcessed) \in Nat /\ Len(relayAccepted) \in Nat
    BY <1>1, LenProperties DEF Streams
  <2>5. UpInv'
    BY <1>1, <2>1, <2>2, <2>3, <2>4 DEF UpInv, Begins
  <2>6. Session!TypeOK'
    BY <1>1, <2>1, <2>2 DEF Session!TypeOK, Session!downVars
  <2>7. QED  BY <1>1, <2>1, <2>5, <2>6, DownUnchanged DEF SessionInv
<1>4. CASE Session!MainDisconnect
  <2>1. /\ mainWork = "disconnect" /\ mainWork' = "idle"
        /\ main' = IF main = "up" THEN "closing" ELSE main
        /\ UNCHANGED <<relaySession, mainArrived, mainProcessed, relayAccepted, relaySent, Session!downVars>>
    BY <1>4 DEF Session!MainDisconnect
  <2>2. main' \in {"up", "closing", "down"} /\ (main' # "down" => main # "down")
    BY <1>1, <2>1 DEF Session!TypeOK
  <2>3. Session!TypeOK'
    BY <1>1, <2>1, <2>2 DEF Session!TypeOK, Session!downVars
  <2>4. UpInv'
    BY <1>1, <2>1 DEF UpInv, Begins
  <2>5. DownInv'
    BY <1>1, <2>1, <2>2 DEF DownInv, Begins, Session!downVars
  <2>6. QED  BY <2>3, <2>4, <2>5 DEF SessionInv
<1>5. CASE Session!RelaySendTest
  <2>1. /\ mainWork = "send" /\ mainWork' = IF relaySession = "down" THEN "idle" ELSE "post"
        /\ UNCHANGED <<main, relaySession, mainArrived, mainProcessed, relayAccepted, relaySent, Session!downVars>>
    BY <1>5 DEF Session!RelaySendTest
  <2>2. Session!TypeOK'
    BY <1>1, <2>1 DEF Session!TypeOK, Session!downVars
  <2>3. UpInv'
    BY <1>1, <2>1 DEF UpInv, Begins
  <2>4. QED  BY <1>1, <2>1, <2>2, <2>3, DownUnchanged DEF SessionInv
<1>6. CASE Session!RelaySendPost
  <2>1. /\ mainWork = "post" /\ mainWork' = "idle"
        /\ relayAccepted' = Append(relayAccepted, Session!Last(mainProcessed))
        /\ UNCHANGED <<main, relaySession, mainArrived, mainProcessed, relaySent, Session!downVars>>
    BY <1>6 DEF Session!RelaySendPost
  <2>2. /\ relayAccepted' \in Seq(Session!Chunks) /\ Len(relayAccepted') = Len(relayAccepted) + 1
        /\ \A i \in 1..Len(relayAccepted) : relayAccepted'[i] = relayAccepted[i]
        /\ Begins(relayAccepted, mainProcessed) /\ Len(mainProcessed) = Len(relayAccepted) + 1
              => Begins(relayAccepted', mainProcessed)
    BY <1>1, <2>1, LastCompletes DEF UpInv, Streams
  <2>3. Begins(relaySent, relayAccepted')
    BY <1>1, <2>2, BeginsOfLonger DEF UpInv, Streams
  <2>4. Len(mainProcessed) \in Nat /\ Len(relayAccepted) \in Nat
    BY <1>1, LenProperties DEF Streams
  <2>5. UpInv'
    BY <1>1, <2>1, <2>2, <2>3, <2>4 DEF UpInv, Begins
  <2>6. Session!TypeOK'
    BY <1>1, <2>1, <2>2 DEF Session!TypeOK, Session!downVars
  <2>7. QED  BY <1>1, <2>1, <2>5, <2>6, DownUnchanged DEF SessionInv
<1>7. CASE Session!RelayWrite
  <2>1. /\ Session!Waiting(relayAccepted, relaySent)
        /\ relaySent' = Session!Passed(relayAccepted, relaySent)
        /\ UNCHANGED <<main, relaySession, mainArrived, mainProcessed, relayAccepted, mainWork, Session!downVars>>
    BY <1>7 DEF Session!RelayWrite
  <2>2. relaySent' \in Seq(Session!Chunks) /\ Begins(relaySent', relayAccepted)
    BY <1>1, <2>1, PassedGrows DEF UpInv, Streams
  <2>3. UpInv'
    BY <1>1, <2>1, <2>2 DEF UpInv, Begins
  <2>4. Session!TypeOK'
    BY <1>1, <2>1, <2>2 DEF Session!TypeOK, Session!downVars
  <2>5. QED  BY <1>1, <2>1, <2>3, <2>4, DownUnchanged DEF SessionInv
<1>. QED  BY <1>2, <1>3, <1>4, <1>5, <1>6, <1>7 DEF Session!Up

LEMMA DownStep ==
    ASSUME SessionInv, Session!ChunksAssumption,
           Session!RelayReceive \/ Session!Down
    PROVE  SessionInv'
<1>. USE Session!ChunksAssumption DEF Session!ChunksAssumption
<1>1. Session!TypeOK /\ UpInv /\ DownInv /\ Streams
  BY StreamsOK DEF SessionInv
<1>2. CASE Session!RelayReceive
  <2>1. /\ relayArrived' = Append(relayArrived, Len(relayArrived) + 1)
        /\ Len(relayArrived) + 1 \in Session!Chunks
        /\ UNCHANGED <<main, relaySession, relayProcessed, mainAccepted, mainSent, relayWork, Session!upVars>>
    BY <1>1, <1>2, LenProperties DEF Session!RelayReceive, Session!Chunks, Streams
  <2>2. relayArrived' \in Seq(Session!Chunks) /\ Begins(relayProcessed, relayArrived')
    BY <1>1, <2>1, ReceivedGrows DEF DownInv, Streams
  <2>3. DownInv'
    BY <1>1, <2>1, <2>2 DEF DownInv, Begins
  <2>4. Session!TypeOK'
    BY <1>1, <2>1, <2>2 DEF Session!TypeOK, Session!upVars
  <2>5. QED  BY <1>1, <2>1, <2>3, <2>4, UpUnchanged DEF SessionInv
<1>3. CASE Session!RelayTake
  <2>1. /\ relayWork = "idle" /\ Session!Waiting(relayArrived, relayProcessed)
        /\ relayProcessed' = Session!Passed(relayArrived, relayProcessed)
        /\ relayWork' = IF main = "down" THEN "idle" ELSE "post"
        /\ UNCHANGED <<main, relaySession, relayArrived, mainAccepted, mainSent, Session!upVars>>
    BY <1>3 DEF Session!RelayTake
  <2>2. /\ relayProcessed' \in Seq(Session!Chunks) /\ Len(relayProcessed') = Len(relayProcessed) + 1
        /\ Begins(relayProcessed', relayArrived)
        /\ \A i \in 1..Len(relayProcessed) : relayProcessed'[i] = relayProcessed[i]
    BY <1>1, <2>1, PassedGrows DEF DownInv, Streams
  <2>3. main # "down" => Begins(mainAccepted, relayProcessed')
    BY <1>1, <2>2, BeginsOfLonger DEF DownInv, Streams
  <2>4. Len(relayProcessed) \in Nat /\ Len(mainAccepted) \in Nat
    BY <1>1, LenProperties DEF Streams
  <2>5. DownInv'
    BY <1>1, <2>1, <2>2, <2>3, <2>4 DEF DownInv, Begins
  <2>6. Session!TypeOK'
    BY <1>1, <2>1, <2>2 DEF Session!TypeOK, Session!upVars
  <2>7. QED  BY <1>1, <2>1, <2>5, <2>6, UpUnchanged DEF SessionInv
<1>4. CASE Session!MainSendPost
  <2>1. /\ relayWork = "post" /\ relayWork' = "idle"
        /\ mainAccepted' = Append(mainAccepted, Session!Last(relayProcessed))
        /\ UNCHANGED <<main, relaySession, relayArrived, relayProcessed, mainSent, Session!upVars>>
    BY <1>4 DEF Session!MainSendPost
  <2>2. /\ mainAccepted' \in Seq(Session!Chunks) /\ Len(mainAccepted') = Len(mainAccepted) + 1
        /\ \A i \in 1..Len(mainAccepted) : mainAccepted'[i] = mainAccepted[i]
        /\ Begins(mainAccepted, relayProcessed) /\ Len(relayProcessed) = Len(mainAccepted) + 1
              => Begins(mainAccepted', relayProcessed)
    BY <1>1, <2>1, LastCompletes DEF DownInv, Streams
  <2>3. Begins(mainSent, mainAccepted')
    BY <1>1, <2>2, BeginsOfLonger DEF DownInv, Streams
  <2>4. Len(relayProcessed) \in Nat /\ Len(mainAccepted) \in Nat
    BY <1>1, LenProperties DEF Streams
  <2>5. DownInv'
    BY <1>1, <2>1, <2>2, <2>3, <2>4 DEF DownInv, Begins
  <2>6. Session!TypeOK'
    BY <1>1, <2>1, <2>2 DEF Session!TypeOK, Session!upVars
  <2>7. QED  BY <1>1, <2>1, <2>5, <2>6, UpUnchanged DEF SessionInv
<1>5. CASE Session!MainWrite
  <2>1. /\ Session!Waiting(mainAccepted, mainSent)
        /\ mainSent' = Session!Passed(mainAccepted, mainSent)
        /\ UNCHANGED <<main, relaySession, relayArrived, relayProcessed, mainAccepted, relayWork, Session!upVars>>
    BY <1>5 DEF Session!MainWrite
  <2>2. mainSent' \in Seq(Session!Chunks) /\ Begins(mainSent', mainAccepted)
    BY <1>1, <2>1, PassedGrows DEF DownInv, Streams
  <2>3. DownInv'
    BY <1>1, <2>1, <2>2 DEF DownInv, Begins
  <2>4. Session!TypeOK'
    BY <1>1, <2>1, <2>2 DEF Session!TypeOK, Session!upVars
  <2>5. QED  BY <1>1, <2>1, <2>3, <2>4, UpUnchanged DEF SessionInv
<1>. QED  BY <1>2, <1>3, <1>4, <1>5 DEF Session!Down

LEMMA EndStep ==
    ASSUME SessionInv, Session!MainCloses \/ Session!RelayCloses \/ Session!MainDisconnected \/ Session!RelayDisconnected
    PROVE  SessionInv'
<1>1. /\ UNCHANGED <<Session!upVars, Session!downVars>>
      /\ main' \in {"up", "closing", "down"} /\ relaySession' \in {"up", "closing", "down"}
      /\ main' # "down" => main # "down"
      /\ relaySession' # "down" => relaySession # "down"
      /\ relaySession = "down" => relaySession' = "down"
  BY DEF SessionInv, Session!TypeOK, Session!MainCloses, Session!RelayCloses, Session!MainDisconnected, Session!RelayDisconnected
<1>2. Session!TypeOK'
  BY <1>1 DEF SessionInv, Session!TypeOK, Session!upVars, Session!downVars
<1>3. UpInv'
  BY <1>1 DEF SessionInv, UpInv, Begins, Session!upVars
<1>4. DownInv'
  BY <1>1 DEF SessionInv, DownInv, Begins, Session!downVars
<1>. QED  BY <1>2, <1>3, <1>4 DEF SessionInv

\* Both directions keep their order and their count in every reachable state.
LEMMA SessionInvariance ==
    ASSUME Session!ChunksAssumption
    PROVE  Session!Spec => []SessionInv
<1>1. Session!Init => SessionInv
  BY SessionInit
<1>2. SessionInv /\ [Session!Next]_Session!vars => SessionInv'
  <2>1. CASE UNCHANGED Session!vars
    BY <2>1 DEF Session!vars, Session!upVars, Session!downVars, SessionInv, Session!TypeOK, UpInv, DownInv, Begins
  <2>2. CASE Session!Next
    BY <2>2, Session!ChunksAssumption, UpStep, DownStep, EndStep DEF Session!Next
  <2>. QED  BY <2>1, <2>2
<1>. QED  BY <1>1, <1>2, PTL DEF Session!Spec

\* Every field has its type, and a packet that one side has processed and the other
\* never accepted was dropped because the other was down (Connected tested by
\* ClientMain.AsyncRecvProcess and by Client.Send).
THEOREM DropCorrect ==
    ASSUME Session!ChunksAssumption
    PROVE  Session!Spec => [](Session!TypeOK /\ Session!DropNeedsDown)
<1>1. SessionInv => Session!TypeOK /\ Session!DropNeedsDown
  <2>1. SUFFICES ASSUME SessionInv PROVE Session!DropNeedsDown
    BY DEF SessionInv
  <2>2. /\ Len(mainProcessed) \in Nat /\ Len(relayAccepted) \in Nat
        /\ Len(relayProcessed) \in Nat /\ Len(mainAccepted) \in Nat
    BY <2>1, StreamsOK, LenProperties DEF SessionInv, Streams
  <2>. QED  BY <2>1, <2>2 DEF SessionInv, UpInv, DownInv, Session!DropNeedsDown
<1>. QED  BY <1>1, SessionInvariance, PTL

-----------------------------------------------------------------------------
(* The refinements.                                                        *)

\* What the application sends comes out at the destination in order, without loss
\* or repetition, until the relay's socket is closed.
THEOREM UpRefinesPipe ==
    ASSUME Session!ChunksAssumption
    PROVE  Session!Spec => Session!UpPipe!Safety
<1>1. Session!Init => Session!UpPipe!Init
  BY DEF Session!Init, Session!UpPipe!Init
<1>2. SessionInv /\ [Session!Next]_Session!vars => [Session!UpPipe!Next]_Session!UpPipe!vars
  <2>. SUFFICES ASSUME SessionInv, [Session!Next]_Session!vars PROVE [Session!UpPipe!Next]_Session!UpPipe!vars
    OBVIOUS
  <2>. USE DEF Session!UpPipe!vars, Session!UpPipe!Next
  <2>1. CASE Session!MainReceive
    <3>1. Len(mainArrived) + 1 \in Session!Chunks
      BY <2>1, Session!ChunksAssumption, StreamsOK, LenProperties
         DEF Session!MainReceive, Session!Chunks, SessionInv, Streams, Session!ChunksAssumption
    <3>2. Session!UpPipe!Take(Len(mainArrived) + 1)
      BY <2>1 DEF Session!MainReceive, Session!UpPipe!Take
    <3>. QED  BY <3>1, <3>2
  <2>2. CASE Session!RelayWrite
    <3>1. /\ Len(relaySent) \in Nat /\ Len(relayAccepted) \in Nat
          /\ Len(mainProcessed) \in Nat /\ Len(mainArrived) \in Nat
      BY StreamsOK, LenProperties DEF SessionInv, Streams
    <3>2. /\ relaySession = "up" /\ Len(relaySent) < Len(relayAccepted)
          /\ relaySent' = Append(relaySent, relayAccepted[Len(relaySent) + 1])
          /\ UNCHANGED <<mainArrived, relaySession>>
      BY <2>2 DEF Session!RelayWrite, Session!Waiting, Session!Passed
    <3>3. /\ Len(relaySent) < Len(mainArrived)
          /\ relayAccepted[Len(relaySent) + 1] = mainArrived[Len(relaySent) + 1]
      BY <3>1, <3>2 DEF SessionInv, UpInv, Begins
    <3>4. Session!UpPipe!Give
      BY <3>2, <3>3 DEF Session!UpPipe!Give
    <3>. QED  BY <3>4
  <2>3. CASE Session!RelayCloses
    <3>1. Session!UpPipe!Break
      BY <2>3 DEF Session!RelayCloses, Session!upVars, Session!UpPipe!Break
    <3>. QED  BY <3>1
  <2>4. CASE Session!RelayReceive \/ Session!Down
    BY <2>4 DEF Session!RelayReceive, Session!Down, Session!RelayTake, Session!MainSendPost, Session!MainWrite, Session!upVars
  <2>5. CASE Session!MainTake \/ Session!MainDisconnect \/ Session!RelaySendTest \/ Session!RelaySendPost
    BY <2>5 DEF Session!MainTake, Session!MainDisconnect, Session!RelaySendTest, Session!RelaySendPost
  <2>6. CASE Session!MainCloses \/ Session!MainDisconnected \/ Session!RelayDisconnected
    BY <2>6 DEF Session!MainCloses, Session!MainDisconnected, Session!RelayDisconnected, Session!upVars
  <2>7. CASE UNCHANGED Session!vars
    BY <2>7 DEF Session!vars, Session!upVars
  <2>. QED  BY <2>1, <2>2, <2>3, <2>4, <2>5, <2>6, <2>7 DEF Session!Next, Session!Up
<1>. QED  BY <1>1, <1>2, SessionInvariance, PTL DEF Session!Spec, Session!UpPipe!Safety

\* What the destination sends comes out at the application in order, without loss
\* or repetition, until ClientMain's socket is closed.
THEOREM DownRefinesPipe ==
    ASSUME Session!ChunksAssumption
    PROVE  Session!Spec => Session!DownPipe!Safety
<1>1. Session!Init => Session!DownPipe!Init
  BY DEF Session!Init, Session!DownPipe!Init
<1>2. SessionInv /\ [Session!Next]_Session!vars => [Session!DownPipe!Next]_Session!DownPipe!vars
  <2>. SUFFICES ASSUME SessionInv, [Session!Next]_Session!vars PROVE [Session!DownPipe!Next]_Session!DownPipe!vars
    OBVIOUS
  <2>. USE DEF Session!DownPipe!vars, Session!DownPipe!Next
  <2>1. CASE Session!RelayReceive
    <3>1. Len(relayArrived) + 1 \in Session!Chunks
      BY <2>1, Session!ChunksAssumption, StreamsOK, LenProperties
         DEF Session!RelayReceive, Session!Chunks, SessionInv, Streams, Session!ChunksAssumption
    <3>2. Session!DownPipe!Take(Len(relayArrived) + 1)
      BY <2>1 DEF Session!RelayReceive, Session!DownPipe!Take
    <3>. QED  BY <3>1, <3>2
  <2>2. CASE Session!MainWrite
    <3>1. /\ Len(mainSent) \in Nat /\ Len(mainAccepted) \in Nat
          /\ Len(relayProcessed) \in Nat /\ Len(relayArrived) \in Nat
      BY StreamsOK, LenProperties DEF SessionInv, Streams
    <3>2. /\ main = "up" /\ Len(mainSent) < Len(mainAccepted)
          /\ mainSent' = Append(mainSent, mainAccepted[Len(mainSent) + 1])
          /\ UNCHANGED <<relayArrived, main>>
      BY <2>2 DEF Session!MainWrite, Session!Waiting, Session!Passed
    <3>3. /\ Len(mainSent) < Len(relayArrived)
          /\ mainAccepted[Len(mainSent) + 1] = relayArrived[Len(mainSent) + 1]
      BY <3>1, <3>2 DEF SessionInv, DownInv, Begins
    <3>4. Session!DownPipe!Give
      BY <3>2, <3>3 DEF Session!DownPipe!Give
    <3>. QED  BY <3>4
  <2>3. CASE Session!MainCloses
    <3>1. Session!DownPipe!Break
      BY <2>3 DEF Session!MainCloses, Session!downVars, Session!DownPipe!Break
    <3>. QED  BY <3>1
  <2>4. CASE Session!MainDisconnect
    <3>1. CASE main = "up"
      <4>1. Session!DownPipe!Break
        BY <2>4, <3>1 DEF Session!MainDisconnect, Session!downVars, Session!DownPipe!Break
      <4>. QED  BY <4>1
    <3>2. CASE main # "up"
      BY <2>4, <3>2 DEF Session!MainDisconnect, Session!downVars
    <3>. QED  BY <3>1, <3>2
  <2>5. CASE Session!MainReceive \/ Session!MainTake \/ Session!RelaySendTest \/ Session!RelaySendPost \/ Session!RelayWrite
    BY <2>5 DEF Session!MainReceive, Session!MainTake, Session!RelaySendTest, Session!RelaySendPost, Session!RelayWrite, Session!downVars
  <2>6. CASE Session!RelayTake \/ Session!MainSendPost
    BY <2>6 DEF Session!RelayTake, Session!MainSendPost
  <2>7. CASE Session!RelayCloses \/ Session!MainDisconnected \/ Session!RelayDisconnected
    BY <2>7 DEF Session!RelayCloses, Session!MainDisconnected, Session!RelayDisconnected, Session!downVars
  <2>8. CASE UNCHANGED Session!vars
    BY <2>8 DEF Session!vars, Session!downVars
  <2>. QED  BY <2>1, <2>2, <2>3, <2>4, <2>5, <2>6, <2>7, <2>8 DEF Session!Next, Session!Up, Session!Down
<1>. QED  BY <1>1, <1>2, SessionInvariance, PTL DEF Session!Spec, Session!DownPipe!Safety
=============================================================================
