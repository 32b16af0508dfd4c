------------------------------- MODULE Client -------------------------------
(***************************************************************************)
(* One session of Network/Client.cs, the base class of ClientMain,         *)
(* ClientRelay and UdpServer: from BeginListen, BeginListenUdp or Connect  *)
(* to the end of the connection.                                           *)
(*                                                                         *)
(* Five kinds of threads run its code: the thread that opens the session,  *)
(* the I/O completion callback (one at a time: each re-arms the receive as *)
(* its last act), the threads that call Send, and the thread-pool work     *)
(* items that drain sendBuffers and readBuffers.                           *)
(*                                                                         *)
(* A lock { } block is one step: what it guards is touched under that lock *)
(* only, and nested locks are always taken in the order buffers, flag.     *)
(* "handle" and "Connected" are read and written outside any lock, so each *)
(* access to them is a step of its own.                                    *)
(***************************************************************************)
EXTENDS Naturals, Sequences

CONSTANTS
    Opener,     \* the thread in BeginListen, BeginListenUdp or Connect
    IO,         \* the I/O completion callback
    Senders,    \* the threads that call Send
    SendPool,   \* thread-pool work items running SendProcess(object)
    RecvPool,   \* thread-pool work items running AsyncRecvProcess(object)
    MaxSend,    \* bound: calls of Send that find the client connected
    MaxRecv     \* bound: chunks that arrive on the socket

Threads == {Opener, IO} \cup Senders \cup SendPool \cup RecvPool

ASSUME BoundsAssumption == MaxSend \in Nat /\ MaxRecv \in Nat

ASSUME ThreadsAssumption ==
    /\ Opener # IO
    /\ {Opener, IO} \cap (Senders \cup SendPool \cup RecvPool) = {}
    /\ Senders \cap (SendPool \cup RecvPool) = {}
    /\ SendPool \cap RecvPool = {}

VARIABLES
    handle,         \* the field: "null" or "socket"
    sock,           \* the socket itself: "none", "open" or "closed"
    connected,      \* Connected
    stateEvents,    \* ClientState events raised so far
    overlap,        \* history: two threads were inside DisposeHandle at once
    faulted,        \* threads a NullReferenceException has escaped from
    announced,      \* number of ClientSend events raised; it numbers packets
    accepted,       \* history: packets enqueued in sendBuffers
    sendBuffers,
    sendingPackets,
    sentOut,        \* history: packets written to the socket
    arrived,        \* number of chunks received; it numbers packets
    readBuffers,
    readingPackets,
    processed,      \* history: packets given to AsyncRecvProcess(Packet)
    hand,           \* the packet a thread holds in a local variable, or 0
    pc

connVars == <<handle, sock, connected, stateEvents, overlap, faulted>>
sendVars == <<announced, accepted, sendBuffers, sendingPackets, sentOut>>
recvVars == <<arrived, readBuffers, readingPackets, processed>>
vars     == <<connVars, sendVars, recvVars, hand, pc>>

None == 0

\* An exception that leaves a pool thread or an I/O callback ends the process;
\* one that leaves the opener goes to the caller of BeginListen or Connect.
Crashed == faulted \ {Opener} # {}

Go(t, from, to) ==
    /\ ~Crashed
    /\ pc[t] = from
    /\ pc' = [pc EXCEPT ![t] = to]

\* ThreadPool.QueueUserWorkItem: thread t moves to `to` and work item w starts.
GoAndStart(t, from, to, w, label) ==
    /\ ~Crashed
    /\ pc[t] = from
    /\ pc[w] = "idle"
    /\ pc' = [pc EXCEPT ![t] = to, ![w] = label]

-----------------------------------------------------------------------------
(* Disconnect, DisposeHandle and OnClientState, by any thread.             *)

Disposing == {"d_close", "d_null"}
Disconnecting == {"d_test", "d_state", "d_set", "d_raise"} \cup Disposing

\* Faulty variant: the caller forgets its clean-up after Disconnect, and the flag
\* it holds stays set.
AfterDisconnect_NoCleanup(t) == "idle"

\* Where a thread goes on when Disconnect returns: SendProcess cleans up,
\* AsyncRecvProcess takes the next packet, the others return.
AfterDisconnect(t) ==
    CASE t \in SendPool -> "cleanup"
      [] t \in RecvPool -> "take"
      [] OTHER          -> "done"

\* Faulty variant: no test for null before DisposeHandle.
DisconnectTest_NoNullTest(t) ==
    /\ Go(t, "d_test", "d_close")
    /\ overlap' = (overlap \/ \E u \in Threads \ {t} : pc[u] \in Disposing)
    /\ UNCHANGED <<handle, sock, connected, stateEvents, faulted, sendVars, recvVars, hand>>

DisconnectTest(t) ==
    /\ \/ /\ handle = "null"
          /\ Go(t, "d_test", "d_state")
          /\ UNCHANGED overlap
       \/ /\ handle # "null"
          /\ Go(t, "d_test", "d_close")
          /\ overlap' = (overlap \/ \E u \in Threads \ {t} : pc[u] \in Disposing)
    /\ UNCHANGED <<handle, sock, connected, stateEvents, faulted, sendVars, recvVars, hand>>

\* DisposeHandle reads handle again: another thread may have cleared it.
DisposeClose(t) ==
    /\ handle # "null"
    /\ Go(t, "d_close", "d_null")
    /\ sock' = "closed"
    /\ UNCHANGED <<handle, connected, stateEvents, overlap, faulted, sendVars, recvVars, hand>>

DisposeFault(t) ==
    /\ handle = "null"
    /\ Go(t, "d_close", "fault")
    /\ faulted' = faulted \cup {t}
    /\ UNCHANGED <<handle, sock, connected, stateEvents, overlap, sendVars, recvVars, hand>>

\* Faulty variant: the field keeps the closed socket.
DisposeNull_KeepHandle(t) ==
    /\ Go(t, "d_null", "d_state")
    /\ UNCHANGED <<connVars, sendVars, recvVars, hand>>

DisposeNull(t) ==
    /\ Go(t, "d_null", "d_state")
    /\ handle' = "null"
    /\ UNCHANGED <<sock, connected, stateEvents, overlap, faulted, sendVars, recvVars, hand>>

\* Faulty variant: OnClientState(false) returns early when it should not.
StateTest_Inverted(t) ==
    /\ Go(t, "d_state", IF connected THEN AfterDisconnect(t) ELSE "d_set")
    /\ UNCHANGED <<connVars, sendVars, recvVars, hand>>

\* OnClientState(false): test, assign, raise, with no lock around them.
StateTest(t) ==
    /\ Go(t, "d_state", IF connected THEN "d_set" ELSE AfterDisconnect(t))
    /\ UNCHANGED <<connVars, sendVars, recvVars, hand>>

StateSet(t) ==
    /\ Go(t, "d_set", "d_raise")
    /\ connected' = FALSE
    /\ UNCHANGED <<handle, sock, stateEvents, overlap, faulted, sendVars, recvVars, hand>>

StateRaise(t) ==
    /\ Go(t, "d_raise", AfterDisconnect(t))
    /\ stateEvents' = Append(stateEvents, "disconnected")
    /\ UNCHANGED <<handle, sock, connected, overlap, faulted, sendVars, recvVars, hand>>

Disconnect(t) ==
    \/ DisconnectTest(t) \/ DisposeClose(t) \/ DisposeFault(t) \/ DisposeNull(t)
    \/ StateTest(t) \/ StateSet(t) \/ StateRaise(t)

-----------------------------------------------------------------------------
(* BeginListen, BeginListenUdp and Connect.                                *)

AssignHandle ==
    /\ Go(Opener, "start", "opened")
    /\ handle' = "socket"
    /\ sock' = "open"
    /\ UNCHANGED <<connected, stateEvents, overlap, faulted, sendVars, recvVars, hand>>

\* RemoteEndPoint, Bind or Connect throws.
OpenFails ==
    /\ Go(Opener, "opened", "d_test")
    /\ UNCHANGED <<connVars, sendVars, recvVars, hand>>

SetConnected ==
    /\ Go(Opener, "opened", "raise")
    /\ connected' = TRUE
    /\ UNCHANGED <<handle, sock, stateEvents, overlap, faulted, sendVars, recvVars, hand>>

RaiseConnected ==
    /\ Go(Opener, "raise", "listen")
    /\ stateEvents' = Append(stateEvents, "connected")
    /\ UNCHANGED <<handle, sock, connected, overlap, faulted, sendVars, recvVars, hand>>

FirstReceive ==
    /\ handle # "null" /\ sock = "open"
    /\ GoAndStart(Opener, "listen", "done", IO, "pending")
    /\ UNCHANGED <<connVars, sendVars, recvVars, hand>>

\* The socket refuses, or another thread has disconnected in the meantime.
FirstReceiveFails ==
    /\ Go(Opener, "listen", "d_test")
    /\ UNCHANGED <<connVars, sendVars, recvVars, hand>>

Open ==
    \/ AssignHandle \/ OpenFails \/ SetConnected \/ RaiseConnected
    \/ FirstReceive \/ FirstReceiveFails

-----------------------------------------------------------------------------
(* Send, and the work item SendProcess.                                    *)

\* The test of Connected and OnClientSend; a call that finds the client
\* disconnected returns and changes nothing.
SendAnnounce(s) ==
    /\ announced < MaxSend
    /\ connected
    /\ Go(s, "idle", "post")
    /\ announced' = announced + 1
    /\ hand' = [hand EXCEPT ![s] = announced + 1]
    /\ UNCHANGED <<connVars, accepted, sendBuffers, sendingPackets, sentOut, recvVars>>

\* lock (sendBuffers): enqueue, and start a work item unless one runs.
SendPost(s) ==
    /\ \/ /\ sendingPackets
          /\ Go(s, "post", "idle")
       \/ /\ ~sendingPackets
          /\ \E w \in SendPool : GoAndStart(s, "post", "idle", w, "check")
    /\ sendingPackets' = TRUE
    /\ sendBuffers' = Append(sendBuffers, hand[s])
    /\ accepted' = Append(accepted, hand[s])
    /\ hand' = [hand EXCEPT ![s] = None]
    /\ UNCHANGED <<connVars, announced, sentOut, recvVars>>

SendCheck(w) ==
    /\ Go(w, "check", IF connected THEN "dequeue" ELSE "stop")
    /\ UNCHANGED <<connVars, sendVars, recvVars, hand>>

\* Faulty variant: the flag is not released.
SendStop_KeepFlag(w) ==
    /\ Go(w, "stop", "idle")
    /\ UNCHANGED <<connVars, sendVars, recvVars, hand>>

\* SendCleanup(false) after the test of Connected.
SendStop(w) ==
    /\ Go(w, "stop", "idle")
    /\ sendingPackets' = FALSE
    /\ UNCHANGED <<connVars, announced, accepted, sendBuffers, sentOut, recvVars, hand>>

\* Faulty variants: the flag is released after the lock on sendBuffers; the
\* queue is emptied, not dequeued.
SendDequeue_LateRelease(w) ==
    /\ \/ /\ sendBuffers = << >>
          /\ Go(w, "dequeue", "stop")
          /\ UNCHANGED <<sendBuffers, hand>>
       \/ /\ sendBuffers # << >>
          /\ Go(w, "dequeue", "write")
          /\ hand' = [hand EXCEPT ![w] = Head(sendBuffers)]
          /\ sendBuffers' = Tail(sendBuffers)
    /\ UNCHANGED <<connVars, announced, accepted, sendingPackets, sentOut, recvVars>>

SendDequeue_DropRest(w) ==
    /\ \/ /\ sendBuffers = << >>
          /\ Go(w, "dequeue", "idle")
          /\ sendingPackets' = FALSE
          /\ UNCHANGED <<sendBuffers, hand>>
       \/ /\ sendBuffers # << >>
          /\ Go(w, "dequeue", "write")
          /\ hand' = [hand EXCEPT ![w] = Head(sendBuffers)]
          /\ sendBuffers' = << >>
          /\ UNCHANGED sendingPackets
    /\ UNCHANGED <<connVars, announced, accepted, sentOut, recvVars>>

\* lock (sendBuffers): SendCleanup(false) if empty, else dequeue.
SendDequeue(w) ==
    /\ \/ /\ sendBuffers = << >>
          /\ Go(w, "dequeue", "idle")
          /\ sendingPackets' = FALSE
          /\ UNCHANGED <<sendBuffers, hand>>
       \/ /\ sendBuffers # << >>
          /\ Go(w, "dequeue", "write")
          /\ hand' = [hand EXCEPT ![w] = Head(sendBuffers)]
          /\ sendBuffers' = Tail(sendBuffers)
          /\ UNCHANGED sendingPackets
    /\ UNCHANGED <<connVars, announced, accepted, sentOut, recvVars>>

\* SendProcess(Packet): handle.Send or handle.SendTo.
SendWrite(w) ==
    /\ handle # "null" /\ sock = "open"
    /\ Go(w, "write", "check")
    /\ sentOut' = Append(sentOut, hand[w])
    /\ hand' = [hand EXCEPT ![w] = None]
    /\ UNCHANGED <<connVars, announced, accepted, sendBuffers, sendingPackets, recvVars>>

\* handle is null, the socket is closed, or the peer is gone: the packet is lost.
SendWriteFails(w) ==
    /\ Go(w, "write", "d_test")
    /\ hand' = [hand EXCEPT ![w] = None]
    /\ UNCHANGED <<connVars, sendVars, recvVars>>

\* SendCleanup(true): the flag is released first, then the queue is cleared.
SendRelease(w) ==
    /\ Go(w, "cleanup", "clear")
    /\ sendingPackets' = FALSE
    /\ UNCHANGED <<connVars, announced, accepted, sendBuffers, sentOut, recvVars, hand>>

SendClear(w) ==
    /\ Go(w, "clear", "idle")
    /\ sendBuffers' = << >>
    /\ UNCHANGED <<connVars, announced, accepted, sendingPackets, sentOut, recvVars, hand>>

SendProcess(w) ==
    \/ SendCheck(w) \/ SendStop(w) \/ SendDequeue(w)
    \/ SendWrite(w) \/ SendWriteFails(w)
    \/ SendRelease(w) \/ SendClear(w)

-----------------------------------------------------------------------------
(* AsyncReceive and AsyncUdpReceive, and the work item AsyncRecvProcess.   *)

\* EndReceive returns data; OnClientRecv announces it.
ReceiveData ==
    /\ arrived < MaxRecv
    /\ handle # "null" /\ sock = "open"
    /\ Go(IO, "pending", "enqueue")
    /\ arrived' = arrived + 1
    /\ hand' = [hand EXCEPT ![IO] = arrived + 1]
    /\ UNCHANGED <<connVars, sendVars, readBuffers, readingPackets, processed>>

\* EndReceive reports an error, or zero bytes: the peer has closed.
ReceiveError ==
    /\ handle # "null" /\ sock = "open"
    /\ Go(IO, "pending", "d_test")
    /\ UNCHANGED <<connVars, sendVars, recvVars, hand>>

\* Closing the socket completes the pending receive: ObjectDisposedException
\* or NullReferenceException, and the callback returns.
ReceiveAborted ==
    /\ handle = "null" \/ sock = "closed"
    /\ Go(IO, "pending", "done")
    /\ UNCHANGED <<connVars, sendVars, recvVars, hand>>

\* lock (readBuffers)
ReceiveEnqueue ==
    /\ Go(IO, "enqueue", "wake")
    /\ readBuffers' = Append(readBuffers, hand[IO])
    /\ hand' = [hand EXCEPT ![IO] = None]
    /\ UNCHANGED <<connVars, sendVars, arrived, readingPackets, processed>>

\* Faulty variant: a work item for every chunk.
ReceiveWake_NoFlagTest ==
    /\ \E w \in RecvPool : GoAndStart(IO, "wake", "rearm", w, "take")
    /\ readingPackets' = TRUE
    /\ UNCHANGED <<connVars, sendVars, arrived, readBuffers, processed, hand>>

\* lock (readingPacketsLock): start a work item unless one runs.
ReceiveWake ==
    /\ \/ /\ readingPackets
          /\ Go(IO, "wake", "rearm")
       \/ /\ ~readingPackets
          /\ \E w \in RecvPool : GoAndStart(IO, "wake", "rearm", w, "take")
    /\ readingPackets' = TRUE
    /\ UNCHANGED <<connVars, sendVars, arrived, readBuffers, processed, hand>>

\* BeginReceive succeeds, finds the socket disposed, or fails otherwise.
ReceiveRearm ==
    /\ handle # "null" /\ sock = "open"
    /\ Go(IO, "rearm", "pending")
    /\ UNCHANGED <<connVars, sendVars, recvVars, hand>>

ReceiveRearmDisposed ==
    /\ handle # "null" /\ sock = "closed"
    /\ Go(IO, "rearm", "done")
    /\ UNCHANGED <<connVars, sendVars, recvVars, hand>>

ReceiveRearmFails ==
    /\ handle = "null" \/ sock = "open"
    /\ Go(IO, "rearm", "d_test")
    /\ UNCHANGED <<connVars, sendVars, recvVars, hand>>

ReceiveCallback ==
    \/ ReceiveAborted \/ ReceiveEnqueue \/ ReceiveWake
    \/ ReceiveRearm \/ ReceiveRearmDisposed \/ ReceiveRearmFails

\* lock (readBuffers): release the flag if empty, else dequeue.
RecvTake(w) ==
    /\ \/ /\ readBuffers = << >>
          /\ Go(w, "take", "idle")
          /\ readingPackets' = FALSE
          /\ UNCHANGED <<readBuffers, hand>>
       \/ /\ readBuffers # << >>
          /\ Go(w, "take", "process")
          /\ hand' = [hand EXCEPT ![w] = Head(readBuffers)]
          /\ readBuffers' = Tail(readBuffers)
          /\ UNCHANGED readingPackets
    /\ UNCHANGED <<connVars, sendVars, arrived, processed>>

\* AsyncRecvProcess(Packet) of the subclass; ClientMain's may call Disconnect.
RecvProcess(w) ==
    /\ \/ Go(w, "process", "take")
       \/ Go(w, "process", "d_test")
    /\ processed' = Append(processed, hand[w])
    /\ hand' = [hand EXCEPT ![w] = None]
    /\ UNCHANGED <<connVars, sendVars, arrived, readBuffers, readingPackets>>

-----------------------------------------------------------------------------
Init ==
    /\ handle = "null"
    /\ sock = "none"
    /\ connected = FALSE
    /\ stateEvents = << >>
    /\ overlap = FALSE
    /\ faulted = {}
    /\ announced = 0
    /\ accepted = << >>
    /\ sendBuffers = << >>
    /\ sendingPackets = FALSE
    /\ sentOut = << >>
    /\ arrived = 0
    /\ readBuffers = << >>
    /\ readingPackets = FALSE
    /\ processed = << >>
    /\ hand = [t \in Threads |-> None]
    /\ pc = [t \in Threads |-> IF t = Opener THEN "start" ELSE "idle"]

Next ==
    \/ \E t \in Threads : Disconnect(t)
    \/ Open
    \/ \E s \in Senders : SendAnnounce(s) \/ SendPost(s)
    \/ \E w \in SendPool : SendProcess(w)
    \/ ReceiveData \/ ReceiveError \/ ReceiveCallback
    \/ \E w \in RecvPool : RecvTake(w) \/ RecvProcess(w)

Spec == Init /\ [][Next]_vars

(***************************************************************************)
(* Fairness: a thread that can run does.  That data arrives, that the peer *)
(* closes and that anybody calls Send is never assumed.  WF of SendProcess *)
(* also assumes that a blocking handle.Send returns, WF of RecvProcess     *)
(* that the subclass's handler does.                                       *)
(***************************************************************************)
Fairness ==
    /\ \A t \in Threads : WF_vars(Disconnect(t))
    /\ WF_vars(Open)
    /\ \A s \in Senders : WF_vars(SendPost(s))
    /\ \A w \in SendPool : WF_vars(SendProcess(w))
    /\ WF_vars(ReceiveCallback)
    /\ \A w \in RecvPool : WF_vars(RecvTake(w) \/ RecvProcess(w))

FairSpec == Spec /\ Fairness

-----------------------------------------------------------------------------
(* Safety.                                                                 *)

OpenerLabels == {"start", "opened", "raise", "listen", "done", "fault"} \cup Disconnecting
IOLabels     == {"idle", "pending", "enqueue", "wake", "rearm", "done", "fault"} \cup Disconnecting
SenderLabels == {"idle", "post"}
SendLabels   == {"idle", "check", "stop", "dequeue", "write", "cleanup", "clear", "fault"}
                  \cup Disconnecting
RecvLabels   == {"idle", "take", "process", "fault"} \cup Disconnecting

Labels(t) ==
    CASE t = Opener    -> OpenerLabels
      [] t = IO        -> IOLabels
      [] t \in Senders  -> SenderLabels
      [] t \in SendPool -> SendLabels
      [] t \in RecvPool -> RecvLabels

\* Every variable has its type, every thread is at a label of its own code.
TypeOK ==
    /\ handle \in {"null", "socket"}
    /\ sock \in {"none", "open", "closed"}
    /\ connected \in BOOLEAN
    /\ stateEvents \in Seq({"connected", "disconnected"})
    /\ overlap \in BOOLEAN
    /\ faulted \in SUBSET Threads
    /\ announced \in Nat /\ arrived \in Nat
    /\ accepted \in Seq(Nat) /\ sendBuffers \in Seq(Nat) /\ sentOut \in Seq(Nat)
    /\ readBuffers \in Seq(Nat) /\ processed \in Seq(Nat)
    /\ sendingPackets \in BOOLEAN /\ readingPackets \in BOOLEAN
    /\ hand \in [Threads -> Nat]
    /\ pc \in [Threads -> UNION {Labels(t) : t \in Threads}]
    /\ \A t \in Threads : pc[t] \in Labels(t)

\* Work items between the test-and-set of a flag and its release.
SendActive == {w \in SendPool : pc[w] \notin {"idle", "clear"}}
RecvActive == {w \in RecvPool : pc[w] # "idle"}

\* sendingPackets does its work: it is set exactly while a work item drains
\* sendBuffers, and never are there two of them.  SendCleanup(true) releases the
\* flag before it clears the queue, so a second work item may start meanwhile.
OneSendProcess ==
    /\ sendingPackets <=> SendActive # {}
    /\ \A v, w \in SendActive : v = w

\* The same of readingPackets.
OneRecvProcess ==
    /\ readingPackets <=> RecvActive # {}
    /\ \A v, w \in RecvActive : v = w

\* The socket carries the packets in the order Send enqueued them, whatever
\* the interleaving of senders, work items and disconnects: no gap, no repeat.
WireOrder ==
    /\ Len(sentOut) <= Len(accepted)
    /\ \A i \in 1..Len(sentOut) : sentOut[i] = accepted[i]

\* The packet a thread of S holds, counted.
InHand(S) == IF \E t \in S : hand[t] # None THEN 1 ELSE 0

\* The packet that has left sendBuffers and is about to be written, counted.
Writing == IF \E w \in SendPool : pc[w] = "write" THEN 1 ELSE 0

\* Until a write fails, each accepted packet is on the wire, in the hands of
\* the work item, or waiting in sendBuffers, in that order.
NoSendLost ==
    connected /\ (\A w \in SendActive : pc[w] \in {"check", "dequeue", "write"}) =>
        /\ Len(accepted) = Len(sentOut) + Writing + Len(sendBuffers)
        /\ \A i \in 1..Len(sendBuffers) :
              sendBuffers[i] = accepted[Len(sentOut) + Writing + i]

\* Every chunk that arrived is processed, being processed, waiting in
\* readBuffers or about to be queued: none is lost, repeated or reordered, even
\* when the client disconnects in between.
NoRecvLost ==
    /\ arrived = Len(processed) + InHand(RecvPool) + Len(readBuffers) + InHand({IO})
    /\ \A i \in 1..Len(processed) : processed[i] = i
    /\ \A i \in 1..Len(readBuffers) :
          readBuffers[i] = Len(processed) + InHand(RecvPool) + i

\* No lost wake-up.  AsyncReceive enqueues under one lock and tests the flag
\* under another, with a gap between them in which the work item may stop;
\* still, a waiting chunk has a work item, or the callback that will start one.
RecvWakeUp == readBuffers # << >> => pc[IO] = "wake" \/ RecvActive # {}

\* While the client is connected, a waiting packet has a work item.
SendWakeUp == connected /\ sendBuffers # << >> => SendActive # {}

\* The NullReferenceException of DisposeHandle needs two threads inside it.
FaultNeedsOverlap == faulted # {} => overlap

\* Disconnect clears Connected only after the socket is closed, so once the
\* session is announced an open socket and Connected go together.
OpenIsConnected ==
    sock = "open" /\ pc[Opener] \in {"raise", "listen", "done"} => connected

AtRest ==
    /\ ~Crashed
    /\ pc[Opener] \in {"done", "fault"}
    /\ pc[IO] \in {"idle", "pending", "done"}
    /\ \A t \in Senders \cup SendPool \cup RecvPool : pc[t] = "idle"

\* When no thread is inside the class, the fields agree with each other: a
\* connected client has its socket, a receive pending on it and nothing queued;
\* a disconnected one has closed and dropped its socket, and whoever was told
\* that it connected has been told that it disconnected.
ConsistentAtRest ==
    AtRest =>
        /\ connected =>
              /\ handle = "socket" /\ sock = "open" /\ pc[IO] = "pending"
              /\ sendBuffers = << >> /\ readBuffers = << >>
        /\ ~connected =>
              /\ handle = "null" /\ sock = "closed"
              /\ (\E i \in 1..Len(stateEvents) : stateEvents[i] = "connected")
                    => \E i \in 1..Len(stateEvents) : stateEvents[i] = "disconnected"

-----------------------------------------------------------------------------
(* Actions and liveness.                                                   *)

\* Nothing is written, and nothing is received, except while Connected.
TrafficOnlyWhileConnected ==
    [][sentOut' # sentOut \/ arrived' # arrived => connected]_vars

\* A session does not come back: Connected is raised once, before its first event.
ConnectedOnce == [][~connected /\ connected' => stateEvents = << >>]_vars

\* A socket that is closed under a connected client is reported to the
\* ClientState observers, unless the process dies of it.
CloseIsReported ==
    connected /\ sock = "closed" ~>
        Crashed \/ \E i \in 1..Len(stateEvents) : stateEvents[i] = "disconnected"

-----------------------------------------------------------------------------
(* What each direction implements.                                         *)

\* Sending, from Send to the socket, is a pipe until the socket is closed.
SendPipe == INSTANCE Pipe WITH
    Message <- 1..MaxSend, taken <- accepted, given <- sentOut,
    broken <- sock = "closed" \/ Crashed

\* Receiving, from the socket to AsyncRecvProcess, is one until the process dies.
RecvPipe == INSTANCE Pipe WITH
    Message <- 1..MaxRecv, taken <- [i \in 1..arrived |-> i], given <- processed,
    broken <- Crashed

SendIsPipe == SendPipe!Spec
RecvIsPipe == RecvPipe!Spec

=============================================================================
