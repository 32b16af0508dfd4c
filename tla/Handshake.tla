----------------------------- MODULE Handshake -----------------------------
(***************************************************************************)
(* ClientMain.AsyncRecvProcess (Network/ClientExtensions/ClientMain.cs):   *)
(* the first six bytes an application sends over its redirected connection *)
(* are the address it wanted to reach, and everything after them is the    *)
(* application's own data, passed on to a ClientRelay connected there.     *)
(*                                                                         *)
(* TCP keeps the bytes in order and cuts them into chunks anywhere.  Bytes *)
(* are named by their position in the stream, from 1, so a header is six   *)
(* positions and a forwarded buffer is an interval of positions.  One      *)
(* thread at a time runs this code (Client!OneRecvProcess); what runs      *)
(* beside it is the relay's connection, which may go at any moment.        *)
(***************************************************************************)
EXTENDS Naturals, Sequences

CONSTANTS
    MaxChunk,       \* bound: bytes in one chunk
    MaxBytes,       \* bound: bytes the application sends
    MaxAttempts     \* bound: relay connections attempted

ASSUME HandshakeBounds == MaxChunk \in Nat /\ MaxBytes \in Nat /\ MaxAttempts \in Nat

VARIABLES
    dataLen,
    readOffset,
    tempHeader,         \* slots 1..headerSize; 0 is the initial zero byte
    tempHeaderOffset,
    appendHeader,
    handshakeComplete,
    chunk,              \* the packet being processed: stream[from .. from + len - 1]
    relay,              \* the newest relay: "none", "up" (Connected) or "down"
    attempts,           \* history: the header each relay connection was made from
    forwarded,          \* history: the intervals Relay.Send accepted
    failed,             \* history: a handshake ended with the relay not connected
    dropped,            \* history: Relay.Send found the relay disconnected
    disconnects,        \* history: Disconnect has been called
    pc                  \* "idle", "loop", "connect", "result", "send", "crash"

headerVars == <<tempHeader, tempHeaderOffset, appendHeader>>
history    == <<attempts, forwarded, failed, dropped, disconnects>>
vars == <<dataLen, readOffset, headerVars, handshakeComplete, chunk, relay, history, pc>>

headerSize == 6
Header     == [i \in 1..headerSize |-> i]

\* Bytes still missing from tempHeader, or a whole header.
headerLen == IF appendHeader THEN headerSize - tempHeaderOffset ELSE headerSize

\* tempHeader after the first n bytes of the chunk are copied behind what it holds.
Filled(n) ==
    [i \in 1..headerSize |->
        IF i \in tempHeaderOffset + 1 .. tempHeaderOffset + n
        THEN chunk.from + (i - tempHeaderOffset) - 1
        ELSE tempHeader[i]]

\* The first six bytes of the chunk.
ChunkHeader == [i \in 1..headerSize |-> chunk.from + i - 1]

-----------------------------------------------------------------------------
Init ==
    /\ dataLen = 0
    /\ readOffset = 0
    /\ tempHeader = [i \in 1..headerSize |-> 0]
    /\ tempHeaderOffset = 0
    /\ appendHeader = FALSE
    /\ handshakeComplete = FALSE
    /\ chunk = [from |-> 1, len |-> 0]
    /\ relay = "none"
    /\ attempts = << >>
    /\ forwarded = << >>
    /\ failed = FALSE
    /\ dropped = FALSE
    /\ disconnects = FALSE
    /\ pc = "idle"

\* AsyncRecvProcess(packet) is called.  After Disconnect it still is, for the
\* packets that were in readBuffers.
Packet(n) ==
    /\ pc = "idle"
    /\ dataLen + n <= MaxBytes
    /\ chunk' = [from |-> dataLen + 1, len |-> n]
    /\ dataLen' = dataLen + n
    /\ pc' = "loop"
    /\ UNCHANGED <<readOffset, headerVars, handshakeComplete, relay, history>>

\* Faulty variant: the break after Disconnect is missing.
RelayGone_NoBreak ==
    /\ pc = "loop" /\ handshakeComplete
    /\ relay # "up"
    /\ disconnects' = TRUE
    /\ UNCHANGED <<dataLen, readOffset, headerVars, handshakeComplete, chunk, relay,
                   attempts, forwarded, failed, dropped, pc>>

\* The call ends with Disconnect: the relay is gone.
RelayGone ==
    /\ pc = "loop" /\ handshakeComplete
    /\ relay # "up"
    /\ disconnects' = TRUE
    /\ pc' = "idle"
    /\ UNCHANGED <<dataLen, readOffset, headerVars, handshakeComplete, chunk, relay,
                   attempts, forwarded, failed, dropped>>

\* new byte[bufferLen - readOffset] with a negative length: OverflowException
\* outside the try, on a pool thread.
BadOffset ==
    /\ pc = "loop" /\ handshakeComplete
    /\ relay = "up"
    /\ readOffset > chunk.len
    /\ pc' = "crash"
    /\ UNCHANGED <<dataLen, readOffset, headerVars, handshakeComplete, chunk, relay, history>>

\* The relay is connected when tested: the bytes from readOffset on are copied.
Forward ==
    /\ pc = "loop" /\ handshakeComplete
    /\ relay = "up"
    /\ readOffset <= chunk.len
    /\ pc' = "send"
    /\ UNCHANGED <<dataLen, readOffset, headerVars, handshakeComplete, chunk, relay, history>>

\* Faulty variant: readOffset stays.
RelaySend_KeepOffset ==
    /\ pc = "send"
    /\ IF relay = "up"
       THEN /\ forwarded' = Append(forwarded, [from |-> chunk.from + readOffset,
                                               to |-> chunk.from + chunk.len - 1])
            /\ UNCHANGED dropped
       ELSE /\ dropped' = TRUE
            /\ UNCHANGED forwarded
    /\ pc' = "idle"
    /\ UNCHANGED <<dataLen, readOffset, headerVars, handshakeComplete, chunk, relay, attempts,
                   failed, disconnects>>

\* Relay.Send tests Connected again, and drops the buffer if it is gone by now.
RelaySend ==
    /\ pc = "send"
    /\ IF relay = "up"
       THEN /\ forwarded' = Append(forwarded, [from |-> chunk.from + readOffset,
                                               to |-> chunk.from + chunk.len - 1])
            /\ UNCHANGED dropped
       ELSE /\ dropped' = TRUE
            /\ UNCHANGED forwarded
    /\ readOffset' = 0
    /\ pc' = "idle"
    /\ UNCHANGED <<dataLen, headerVars, handshakeComplete, chunk, relay, attempts, failed,
                   disconnects>>

\* Too few bytes for a header yet: keep them.
ShortHeader ==
    /\ pc = "loop" /\ ~handshakeComplete
    /\ dataLen < headerSize
    /\ tempHeader' = Filled(chunk.len)
    /\ tempHeaderOffset' = tempHeaderOffset + chunk.len
    /\ appendHeader' = TRUE
    /\ pc' = "idle"
    /\ UNCHANGED <<dataLen, readOffset, handshakeComplete, chunk, relay, history>>

\* Array.Copy or BitConverter runs over the end of the chunk: Disconnect.
BadHeader ==
    /\ pc = "loop" /\ ~handshakeComplete
    /\ dataLen >= headerSize
    /\ chunk.len < headerLen
    /\ disconnects' = TRUE
    /\ pc' = "idle"
    /\ UNCHANGED <<dataLen, readOffset, headerVars, handshakeComplete, chunk, relay, attempts,
                   forwarded, failed, dropped>>

\* GetRelayEndPoint, and ConnectRelay makes a new relay and starts to connect it.
ReadHeader ==
    /\ pc = "loop" /\ ~handshakeComplete
    /\ dataLen >= headerSize
    /\ chunk.len >= headerLen
    /\ Len(attempts) < MaxAttempts
    /\ tempHeader' = IF appendHeader THEN Filled(headerLen) ELSE tempHeader
    /\ attempts' = Append(attempts, IF headerLen < headerSize THEN tempHeader' ELSE ChunkHeader)
    /\ relay' = "none"
    /\ pc' = "connect"
    /\ UNCHANGED <<dataLen, readOffset, tempHeaderOffset, appendHeader, handshakeComplete, chunk,
                   forwarded, failed, dropped, disconnects>>

\* Relay.Connect returns, connected or after its own Disconnect.
Connect(outcome) ==
    /\ pc = "connect"
    /\ relay' = outcome
    /\ pc' = "result"
    /\ UNCHANGED <<dataLen, readOffset, headerVars, handshakeComplete, chunk, history>>

\* Faulty variant: the rest of the chunk starts after a whole header.
Result_WholeHeader ==
    /\ pc = "result"
    /\ handshakeComplete' = (relay = "up")
    /\ failed' = (failed \/ relay # "up")
    /\ IF chunk.len > headerLen
       THEN readOffset' = readOffset + headerSize /\ pc' = "loop"
       ELSE UNCHANGED readOffset /\ pc' = "idle"
    /\ UNCHANGED <<dataLen, headerVars, chunk, relay, attempts, forwarded, dropped, disconnects>>

\* handshakeComplete is set to whether the relay is connected now; what follows
\* the header in this chunk goes through the loop again, connected or not.
Result ==
    /\ pc = "result"
    /\ handshakeComplete' = (relay = "up")
    /\ failed' = (failed \/ relay # "up")
    /\ IF chunk.len > headerLen
       THEN readOffset' = readOffset + headerLen /\ pc' = "loop"
       ELSE UNCHANGED readOffset /\ pc' = "idle"
    /\ UNCHANGED <<dataLen, headerVars, chunk, relay, attempts, forwarded, dropped, disconnects>>

\* The relay's connection ends, in any of the relay's own threads.
RelayDown ==
    /\ relay = "up" /\ pc # "crash"
    /\ relay' = "down"
    /\ UNCHANGED <<dataLen, readOffset, headerVars, handshakeComplete, chunk, history, pc>>

AsyncRecvProcess ==
    \/ RelayGone \/ BadOffset \/ Forward \/ RelaySend
    \/ ShortHeader \/ BadHeader \/ ReadHeader
    \/ (\E outcome \in {"up", "down"} : Connect(outcome))
    \/ Result

Next == (\E n \in 1..MaxChunk : Packet(n)) \/ AsyncRecvProcess \/ RelayDown

Spec == Init /\ [][Next]_vars

\* The work item runs, and a connection attempt that is made comes to an end.
Fairness == WF_vars(AsyncRecvProcess)

FairSpec == Spec /\ Fairness

-----------------------------------------------------------------------------
TypeOK ==
    /\ dataLen \in Nat /\ readOffset \in Nat
    /\ tempHeader \in [1..headerSize -> Nat]
    /\ tempHeaderOffset \in 0..headerSize - 1
    /\ appendHeader \in BOOLEAN /\ handshakeComplete \in BOOLEAN
    /\ chunk \in [from : Nat, len : Nat]
    /\ relay \in {"none", "up", "down"}
    /\ attempts \in Seq([1..headerSize -> Nat])
    /\ forwarded \in Seq([from : Nat, to : Nat])
    /\ failed \in BOOLEAN /\ dropped \in BOOLEAN /\ disconnects \in BOOLEAN
    /\ pc \in {"idle", "loop", "connect", "result", "send", "crash"}

\* However the stream is cut into chunks, the first relay connection goes to the
\* address in its first six bytes.
FirstAttemptIsHeader == attempts # << >> => attempts[1] = Header

\* Until an attempt fails or the relay goes down, the relay has been given every
\* byte of every processed chunk that follows the header, once and in order.
\* The position of the next byte to forward:
NextByte == IF forwarded = << >> THEN headerSize + 1 ELSE forwarded[Len(forwarded)].to + 1

PayloadForwarded ==
    ~failed =>
        /\ forwarded # << >> => forwarded[1].from = headerSize + 1
        /\ \A i \in 1..Len(forwarded) - 1 : forwarded[i + 1].from = forwarded[i].to + 1
        /\ pc = "idle" /\ handshakeComplete /\ ~dropped /\ ~disconnects =>
              NextByte = dataLen + 1

\* Even after failed attempts no byte is given to a relay twice or out of order.
NeverTwice ==
    \A i, j \in 1..Len(forwarded) : i < j => forwarded[i].to < forwarded[j].from

\* Only a failed attempt leads to a negative buffer length, which ends the process.
CrashNeedsFailure == pc = "crash" => failed

\* What GetRelayEndPoint returns is the relay's destination, as its comment says.
EveryAttemptIsHeader == \A i \in 1..Len(attempts) : attempts[i] = Header

\* While no attempt fails, each call of AsyncRecvProcess returns.
CallReturns == pc # "idle" ~> pc = "idle" \/ failed

=============================================================================
