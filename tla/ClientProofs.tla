---------------------------- MODULE ClientProofs ----------------------------
(***************************************************************************)
(* Theorems about Client, for every set of threads and every bound.        *)
(***************************************************************************)
EXTENDS Client, SequenceTheorems, TLAPS

-----------------------------------------------------------------------------
(* Types.                                                                  *)

DataOK ==
    /\ handle \in {"null", "socket"}
    /\ sock \in {"none", "open", "closed"}
    /\ connected \in BOOLEAN
    /\ stateEvents \in Seq({"connected", "disconnected"})
    /\ overlap \in BOOLEAN
    /\ faulted \in SUBSET Threads
    /\ announced \in Nat /\ arrived \in Nat
    /\ accepted \in Seq(Nat) /\ sendBuffers \in Seq(Nat) /\ sentOut \in Seq(Nat)
    /\ readBuffers \in Seq(Nat) /\ processed \in Seq(Nat)
    /\ sendingPackets \in BOOLEAN /\ readingPackets \in BOOLEAN
    /\ hand \in [Threads -> Nat]

PcOK ==
    /\ pc \in [Threads -> UNION {Labels(t) : t \in Threads}]
    /\ \A t \in Threads : pc[t] \in Labels(t)

LEMMA TypeSplit == TypeOK <=> DataOK /\ PcOK
BY DEF TypeOK, DataOK, PcOK

\* The kinds of threads are disjoint, so each has one set of labels.
LEMMA LabelsOfKinds ==
    /\ Opener \in Threads /\ Labels(Opener) = OpenerLabels
    /\ IO \in Threads /\ Labels(IO) = IOLabels
    /\ \A s \in Senders : s \in Threads /\ Labels(s) = SenderLabels
    /\ \A w \in SendPool : w \in Threads /\ Labels(w) = SendLabels
    /\ \A w \in RecvPool : w \in Threads /\ Labels(w) = RecvLabels
BY ThreadsAssumption DEF Threads, Labels

LEMMA GoTypes ==
    ASSUME PcOK, NEW t \in Threads, NEW from, NEW to \in Labels(t),
           Go(t, from, to)
    PROVE  PcOK'
BY DEF PcOK, Go

LEMMA GoAndStartTypes ==
    ASSUME PcOK, NEW t \in Threads, NEW w \in Threads, NEW from,
           NEW to \in Labels(t), NEW label \in Labels(w),
           GoAndStart(t, from, to, w, label)
    PROVE  PcOK'
BY DEF PcOK, GoAndStart

\* A thread that is inside Disconnect is not a sender, and returns to a label of
\* its own.
LEMMA DisconnectLabels ==
    ASSUME PcOK, NEW t \in Threads, pc[t] \in Disconnecting
    PROVE  /\ Disconnecting \cup {"fault"} \subseteq Labels(t)
           /\ AfterDisconnect(t) \in Labels(t)
<1>1. t \notin Senders
      BY LabelsOfKinds DEF PcOK, SenderLabels, Disconnecting, Disposing
<1>2. CASE t = Opener
  <2>1. AfterDisconnect(t) = "done"
        BY <1>2, ThreadsAssumption DEF AfterDisconnect
  <2> QED BY <1>2, <2>1, LabelsOfKinds DEF OpenerLabels
<1>3. CASE t = IO
  <2>1. AfterDisconnect(t) = "done"
        BY <1>3, ThreadsAssumption DEF AfterDisconnect
  <2> QED BY <1>3, <2>1, LabelsOfKinds DEF IOLabels
<1>4. CASE t \in SendPool
  <2>1. AfterDisconnect(t) = "cleanup"
        BY <1>4, ThreadsAssumption DEF AfterDisconnect
  <2> QED BY <1>4, <2>1, LabelsOfKinds DEF SendLabels
<1>5. CASE t \in RecvPool
  <2>1. AfterDisconnect(t) = "take"
        BY <1>5, ThreadsAssumption DEF AfterDisconnect
  <2> QED BY <1>5, <2>1, LabelsOfKinds DEF RecvLabels
<1> QED BY <1>1, <1>2, <1>3, <1>4, <1>5 DEF Threads

LEMMA DisconnectPcOK ==
    ASSUME PcOK, NEW t \in Threads, Disconnect(t) PROVE PcOK'
<1>1. pc[t] \in Disconnecting
      BY DEF Disconnect, DisconnectTest, DisposeClose, DisposeFault, DisposeNull,
             StateTest, StateSet, StateRaise, Go, Disconnecting, Disposing
<1> USE <1>1, DisconnectLabels DEF Disconnecting, Disposing, Go, PcOK
<1>2. CASE DisconnectTest(t) BY <1>2 DEF DisconnectTest
<1>3. CASE DisposeClose(t) BY <1>3 DEF DisposeClose
<1>4. CASE DisposeFault(t) BY <1>4 DEF DisposeFault
<1>5. CASE DisposeNull(t) BY <1>5 DEF DisposeNull
<1>6. CASE StateTest(t) BY <1>6 DEF StateTest
<1>7. CASE StateSet(t) BY <1>7 DEF StateSet
<1>8. CASE StateRaise(t) BY <1>8 DEF StateRaise
<1> QED BY <1>2, <1>3, <1>4, <1>5, <1>6, <1>7, <1>8 DEF Disconnect

LEMMA OpenPcOK == ASSUME PcOK, Open PROVE PcOK'
<1> USE LabelsOfKinds DEF OpenerLabels, IOLabels, Disconnecting, Go, GoAndStart, PcOK
<1>1. CASE AssignHandle BY <1>1 DEF AssignHandle
<1>2. CASE OpenFails BY <1>2 DEF OpenFails
<1>3. CASE SetConnected BY <1>3 DEF SetConnected
<1>4. CASE RaiseConnected BY <1>4 DEF RaiseConnected
<1>5. CASE FirstReceive BY <1>5 DEF FirstReceive
<1>6. CASE FirstReceiveFails BY <1>6 DEF FirstReceiveFails
<1> QED BY <1>1, <1>2, <1>3, <1>4, <1>5, <1>6 DEF Open

LEMMA SendPcOK ==
    ASSUME PcOK,
           \/ \E s \in Senders : SendAnnounce(s) \/ SendPost(s)
           \/ \E w \in SendPool : SendProcess(w)
    PROVE  PcOK'
<1> USE LabelsOfKinds DEF SenderLabels, SendLabels, Go, GoAndStart, PcOK
<1>1. ASSUME NEW s \in Senders, SendAnnounce(s) PROVE PcOK' BY <1>1 DEF SendAnnounce
<1>2. ASSUME NEW s \in Senders, SendPost(s) PROVE PcOK'
  <2>1. CASE sendingPackets BY <1>2, <2>1, SMTT(20) DEF SendPost
  <2>2. CASE ~sendingPackets
    <3>1. PICK w \in SendPool : GoAndStart(s, "post", "idle", w, "check")
          BY <1>2, <2>2 DEF SendPost
    <3> QED BY <3>1
  <2> QED BY <2>1, <2>2
<1>3. ASSUME NEW w \in SendPool, SendProcess(w) PROVE PcOK'
  <2>1. CASE SendCheck(w) BY <2>1 DEF SendCheck
  <2>2. CASE SendStop(w) BY <2>2 DEF SendStop
  <2>3. CASE SendDequeue(w) BY <2>3 DEF SendDequeue
  <2>4. CASE SendWrite(w) BY <2>4 DEF SendWrite
  <2>5. CASE SendWriteFails(w) BY <2>5 DEF SendWriteFails, Disconnecting
  <2>6. CASE SendRelease(w) BY <2>6 DEF SendRelease
  <2>7. CASE SendClear(w) BY <2>7 DEF SendClear
  <2> QED BY <1>3, <2>1, <2>2, <2>3, <2>4, <2>5, <2>6, <2>7 DEF SendProcess
<1> QED BY <1>1, <1>2, <1>3

LEMMA RecvPcOK ==
    ASSUME PcOK,
           \/ ReceiveData \/ ReceiveError \/ ReceiveCallback
           \/ \E w \in RecvPool : RecvTake(w) \/ RecvProcess(w)
    PROVE  PcOK'
<1> USE LabelsOfKinds DEF IOLabels, RecvLabels, Disconnecting, Go, GoAndStart, PcOK
<1>1. CASE ReceiveData BY <1>1 DEF ReceiveData
<1>2. CASE ReceiveError BY <1>2 DEF ReceiveError
<1>3. CASE ReceiveCallback
  <2>1. CASE ReceiveAborted BY <2>1 DEF ReceiveAborted
  <2>2. CASE ReceiveEnqueue BY <2>2 DEF ReceiveEnqueue
  <2>3. CASE ReceiveWake BY <2>3 DEF ReceiveWake
  <2>4. CASE ReceiveRearm BY <2>4 DEF ReceiveRearm
  <2>5. CASE ReceiveRearmDisposed BY <2>5 DEF ReceiveRearmDisposed
  <2>6. CASE ReceiveRearmFails BY <2>6 DEF ReceiveRearmFails
  <2> QED BY <1>3, <2>1, <2>2, <2>3, <2>4, <2>5, <2>6 DEF ReceiveCallback
<1>4. ASSUME NEW w \in RecvPool, RecvTake(w) PROVE PcOK'    BY <1>4 DEF RecvTake
<1>5. ASSUME NEW w \in RecvPool, RecvProcess(w) PROVE PcOK' BY <1>5 DEF RecvProcess
<1> QED BY <1>1, <1>2, <1>3, <1>4, <1>5

\* The queues without their first packet are sequences of packets again.
LEMMA Tails ==
    ASSUME DataOK
    PROVE  /\ sendBuffers # << >> => Head(sendBuffers) \in Nat /\ Tail(sendBuffers) \in Seq(Nat)
           /\ readBuffers # << >> => Head(readBuffers) \in Nat /\ Tail(readBuffers) \in Seq(Nat)
BY HeadTailProperties DEF DataOK

LEMMA DataStep == DataOK /\ Next => DataOK'
<1> SUFFICES ASSUME DataOK, Next PROVE DataOK'
    OBVIOUS
<1> USE LabelsOfKinds DEF DataOK, None, connVars, sendVars, recvVars
<1>1. ASSUME NEW t \in Threads, Disconnect(t) PROVE DataOK'
  <2>1. CASE DisconnectTest(t) BY <2>1 DEF DisconnectTest
  <2>2. CASE DisposeClose(t) BY <2>2 DEF DisposeClose
  <2>3. CASE DisposeFault(t) BY <2>3 DEF DisposeFault
  <2>4. CASE DisposeNull(t) BY <2>4 DEF DisposeNull
  <2>5. CASE StateTest(t) BY <2>5 DEF StateTest
  <2>6. CASE StateSet(t) BY <2>6 DEF StateSet
  <2>7. CASE StateRaise(t) BY <2>7 DEF StateRaise
  <2> QED BY <1>1, <2>1, <2>2, <2>3, <2>4, <2>5, <2>6, <2>7 DEF Disconnect
<1>2. CASE Open
  <2>1. CASE AssignHandle BY <2>1 DEF AssignHandle
  <2>2. CASE OpenFails BY <2>2 DEF OpenFails
  <2>3. CASE SetConnected BY <2>3 DEF SetConnected
  <2>4. CASE RaiseConnected BY <2>4 DEF RaiseConnected
  <2>5. CASE FirstReceive BY <2>5 DEF FirstReceive
  <2>6. CASE FirstReceiveFails BY <2>6 DEF FirstReceiveFails
  <2> QED BY <1>2, <2>1, <2>2, <2>3, <2>4, <2>5, <2>6 DEF Open
<1>3. ASSUME NEW s \in Senders, SendAnnounce(s) PROVE DataOK'
      BY <1>3 DEF SendAnnounce
<1>4. ASSUME NEW s \in Senders, SendPost(s) PROVE DataOK'
      BY <1>4 DEF SendPost
<1>5. ASSUME NEW w \in SendPool, SendProcess(w) PROVE DataOK'
  <2>1. CASE SendCheck(w) BY <2>1 DEF SendCheck
  <2>2. CASE SendStop(w) BY <2>2 DEF SendStop
  <2>3. CASE SendDequeue(w)
    <3>1. CASE sendBuffers = << >> BY <2>3, <3>1 DEF SendDequeue
    <3>2. CASE sendBuffers # << >>
      <4>1. sendBuffers' \in Seq(Nat) BY <2>3, <3>2, Tails DEF SendDequeue
      <4>2. hand' \in [Threads -> Nat] BY <2>3, <3>2, Tails DEF SendDequeue
      <4> QED BY <2>3, <3>2, <4>1, <4>2 DEF SendDequeue
    <3> QED BY <3>1, <3>2
  <2>4. CASE SendWrite(w) BY <2>4 DEF SendWrite
  <2>5. CASE SendWriteFails(w) BY <2>5 DEF SendWriteFails
  <2>6. CASE SendRelease(w) BY <2>6 DEF SendRelease
  <2>7. CASE SendClear(w) BY <2>7 DEF SendClear
  <2> QED BY <1>5, <2>1, <2>2, <2>3, <2>4, <2>5, <2>6, <2>7 DEF SendProcess
<1>6. CASE ReceiveData
      BY <1>6 DEF ReceiveData
<1>10. CASE ReceiveError
      BY <1>10 DEF ReceiveError
<1>7. CASE ReceiveCallback
  <2>1. CASE ReceiveEnqueue BY <2>1 DEF ReceiveEnqueue
  <2>2. CASE ReceiveWake BY <2>2 DEF ReceiveWake
  <2>3. CASE ReceiveAborted \/ ReceiveRearm \/ ReceiveRearmDisposed \/ ReceiveRearmFails
        BY <2>3 DEF ReceiveAborted, ReceiveRearm, ReceiveRearmDisposed, ReceiveRearmFails
  <2> QED BY <1>7, <2>1, <2>2, <2>3 DEF ReceiveCallback
<1>8. ASSUME NEW w \in RecvPool, RecvTake(w) PROVE DataOK'
  <2>1. CASE readBuffers = << >> BY <1>8, <2>1 DEF RecvTake
  <2>2. CASE readBuffers # << >>
    <3>1. readBuffers' \in Seq(Nat) BY <1>8, <2>2, Tails DEF RecvTake
    <3>2. hand' \in [Threads -> Nat] BY <1>8, <2>2, Tails DEF RecvTake
    <3> QED BY <1>8, <2>2, <3>1, <3>2 DEF RecvTake
  <2> QED BY <2>1, <2>2
<1>9. ASSUME NEW w \in RecvPool, RecvProcess(w) PROVE DataOK'
      BY <1>9 DEF RecvProcess
<1> QED BY <1>1, <1>2, <1>3, <1>4, <1>5, <1>6, <1>7, <1>8, <1>9, <1>10 DEF Next

LEMMA TypeInit == Init => TypeOK
<1> SUFFICES ASSUME Init PROVE DataOK /\ PcOK
    BY TypeSplit
<1>1. DataOK
  <2>1. hand \in [Threads -> Nat] /\ faulted \in SUBSET Threads
        BY DEF Init, None
  <2>2. stateEvents \in Seq({"connected", "disconnected"})
        BY DEF Init
  <2>3. /\ accepted \in Seq(Nat) /\ sendBuffers \in Seq(Nat) /\ sentOut \in Seq(Nat)
        /\ readBuffers \in Seq(Nat) /\ processed \in Seq(Nat)
        BY DEF Init
  <2>4. /\ handle \in {"null", "socket"} /\ sock \in {"none", "open", "closed"}
        /\ connected \in BOOLEAN /\ overlap \in BOOLEAN
        /\ sendingPackets \in BOOLEAN /\ readingPackets \in BOOLEAN
        /\ announced \in Nat /\ arrived \in Nat
        BY DEF Init
  <2> QED BY <2>1, <2>2, <2>3, <2>4 DEF DataOK
<1>2. \A t \in Threads : pc[t] \in Labels(t)
  <2>1. \A t \in Threads : pc[t] = IF t = Opener THEN "start" ELSE "idle"
        BY DEF Init
  <2> QED BY <2>1, LabelsOfKinds DEF Threads, OpenerLabels, IOLabels, SenderLabels,
                                     SendLabels, RecvLabels
<1>3. pc = [t \in Threads |-> pc[t]] BY DEF Init
<1> QED BY <1>1, <1>2, <1>3 DEF PcOK

LEMMA TypeStep == TypeOK /\ [Next]_vars => TypeOK'
<1> SUFFICES ASSUME TypeOK, [Next]_vars PROVE TypeOK'
    OBVIOUS
<1>1. CASE Next
  <2>1. PcOK /\ DataOK BY TypeSplit
  <2>2. PcOK' BY <1>1, <2>1, DisconnectPcOK, OpenPcOK, SendPcOK, RecvPcOK DEF Next
  <2>3. DataOK' BY <1>1, <2>1, DataStep
  <2> QED BY <2>2, <2>3, TypeSplit DEF TypeOK, DataOK, PcOK
<1>2. CASE UNCHANGED vars
      BY <1>2 DEF vars, connVars, sendVars, recvVars, TypeOK
<1> QED BY <1>1, <1>2

\* Type correctness, for any threads and any bounds.
THEOREM TypeCorrect == Spec => []TypeOK
BY TypeInit, TypeStep, PTL DEF Spec


-----------------------------------------------------------------------------
(* What an action of one kind of threads leaves alone.                     *)

\* Disconnect moves its own thread only, and never touches a queue.
LEMMA DisconnectFrame ==
    ASSUME TypeOK, NEW t \in Threads, Disconnect(t)
    PROVE  /\ t \notin Senders
           /\ pc[t] \in Disconnecting
           /\ pc'[t] \in Disconnecting \cup {"fault", AfterDisconnect(t)}
           /\ \A u \in Threads \ {t} : pc'[u] = pc[u]
           /\ UNCHANGED <<sendVars, recvVars, hand>>
           /\ connected' => connected
<1>1. PcOK
      BY TypeSplit
<1>2. pc[t] \in Disconnecting
      BY DEF Disconnect, DisconnectTest, DisposeClose, DisposeFault, DisposeNull,
             StateTest, StateSet, StateRaise, Go, Disconnecting, Disposing
<1>3. t \notin Senders
      BY <1>1, <1>2, LabelsOfKinds DEF PcOK, SenderLabels, Disconnecting, Disposing
<1> USE <1>1, <1>2, <1>3 DEF PcOK, Go
<1>4. CASE DisconnectTest(t) BY <1>4 DEF DisconnectTest, Disconnecting, Disposing
<1>5. CASE DisposeClose(t) BY <1>5 DEF DisposeClose, Disconnecting, Disposing
<1>6. CASE DisposeFault(t) BY <1>6 DEF DisposeFault
<1>7. CASE DisposeNull(t) BY <1>7 DEF DisposeNull, Disconnecting
<1>8. CASE StateTest(t) BY <1>8 DEF StateTest, connVars, Disconnecting
<1>9. CASE StateSet(t) BY <1>9 DEF StateSet, Disconnecting
<1>10. CASE StateRaise(t) BY <1>10 DEF StateRaise
<1> QED BY <1>4, <1>5, <1>6, <1>7, <1>8, <1>9, <1>10 DEF Disconnect

-----------------------------------------------------------------------------
(* The inductive invariant, in parts.                                      *)

\* No thread but the opener has entered the class yet.
Quiet == \A t \in Threads \ {Opener} : pc[t] = "idle" /\ hand[t] = None

\* The connection: handle follows the socket, and Connected follows both.
SessionInv ==
    /\ sock = "none" <=> pc[Opener] = "start"
    /\ pc[Opener] = "opened" => sock = "open"
    /\ handle = "null" => sock # "open"
    /\ sock = "none" => handle = "null"
    /\ \A t \in Threads : pc[t] \in {"d_state", "d_set", "d_raise"} =>
          handle = "null" /\ sock = "closed"
    /\ \A t \in Threads : pc[t] = "d_null" => sock = "closed"
    /\ \A t \in Threads : pc[t] = "d_raise" => ~connected
    /\ pc[Opener] \in {"start", "opened"} => ~connected /\ stateEvents = << >> /\ Quiet
    /\ pc[Opener] \in {"raise", "listen", "done"} /\ sock = "open" => connected
    /\ sock = "open" => connected \/ Quiet
    /\ connected /\ sock = "closed" =>
          \E t \in Threads : pc[t] \in {"d_null", "d_state", "d_set"}

\* Without overlapping disposals, handle still holds when DisposeHandle reads it again.
FaultInv ==
    /\ overlap \/ \A t, u \in Threads : pc[t] \in Disposing /\ pc[u] \in Disposing => t = u
    /\ overlap \/ \A t \in Threads : pc[t] = "d_close" => handle # "null"
    /\ FaultNeedsOverlap

\* Who holds the flag, and what a work item that gives up implies.
SendPcInv ==
    /\ OneSendProcess
    /\ \A w \in SendPool : pc[w] \in {"stop", "cleanup", "clear"} => ~connected
    /\ \A v, w \in SendPool : pc[v] = "clear" => pc[w] \in {"idle", "clear", "check", "stop"}

\* sendBuffers is the rest of accepted after the n packets that left it.
Rest(n) ==
    /\ Len(accepted) = n + Len(sendBuffers)
    /\ \A i \in 1..Len(sendBuffers) : sendBuffers[i] = accepted[n + i]

\* A send has failed, or its consequences are being dealt with.
Failing == \E w \in SendPool : pc[w] \in Disconnecting \cup {"cleanup", "clear", "fault"}

SendDataInv ==
    /\ WireOrder
    /\ connected /\ ~Failing /\ (\A w \in SendPool : pc[w] # "write") => Rest(Len(sentOut))
    /\ \A w \in SendPool : pc[w] = "dequeue" => Rest(Len(sentOut))
    /\ \A w \in SendPool : pc[w] = "write" =>
          /\ Rest(Len(sentOut) + 1)
          /\ hand[w] = accepted[Len(sentOut) + 1]
    /\ pc[Opener] \in {"start", "opened"} => accepted = << >> /\ sendBuffers = << >> /\ sentOut = << >>
    /\ SendWakeUp

\* The numbers of the received chunks run on without a gap from processed, over
\* the chunk in the hands of the work item and readBuffers, to the callback.
RecvInv ==
    /\ OneRecvProcess
    /\ RecvWakeUp
    /\ \A i \in 1..Len(processed) : processed[i] = i
    /\ \A w \in RecvPool : hand[w] = IF pc[w] = "process" THEN Len(processed) + 1 ELSE None
    /\ hand[IO] = IF pc[IO] = "enqueue" THEN arrived ELSE None
    /\ pc[IO] = "enqueue" => arrived # 0
    /\ \A i \in 1..Len(readBuffers) : readBuffers[i] = Len(processed) + InHand(RecvPool) + i
    /\ arrived = Len(processed) + InHand(RecvPool) + Len(readBuffers) + InHand({IO})

-----------------------------------------------------------------------------
(* Receiving.                                                              *)

\* What RecvInv is about did not change: no queue, no packet in hand, no thread
\* of the receiving side that started, stopped or reached another stage.
RecvSame ==
    /\ UNCHANGED recvVars
    /\ \A w \in RecvPool \cup {IO} : hand'[w] = hand[w]
    /\ \A w \in RecvPool : (pc'[w] = "idle") = (pc[w] = "idle")
    /\ \A w \in RecvPool : (pc'[w] = "process") = (pc[w] = "process")
    /\ (pc'[IO] = "enqueue") = (pc[IO] = "enqueue")
    /\ (pc'[IO] = "wake") = (pc[IO] = "wake")

LEMMA InHandNat == ASSUME NEW S PROVE InHand(S) \in Nat /\ InHand(S)' \in Nat
BY DEF InHand

LEMMA Lengths ==
    ASSUME TypeOK
    PROVE  /\ Len(processed) \in Nat /\ Len(readBuffers) \in Nat /\ arrived \in Nat
           /\ Len(accepted) \in Nat /\ Len(sendBuffers) \in Nat /\ Len(sentOut) \in Nat
           /\ readBuffers # << >> => Len(readBuffers) > 0
           /\ sendBuffers # << >> => Len(sendBuffers) > 0
BY EmptySeq, LenProperties DEF TypeOK

LEMMA RecvFrame == ASSUME RecvInv, RecvSame PROVE RecvInv'
<1>1. RecvActive' = RecvActive
      BY DEF RecvSame, RecvActive
<1>2. InHand(RecvPool)' = InHand(RecvPool) /\ InHand({IO})' = InHand({IO})
      BY DEF RecvSame, InHand
<1>3. OneRecvProcess' /\ RecvWakeUp'
      BY <1>1 DEF RecvInv, RecvSame, recvVars, OneRecvProcess, RecvWakeUp
<1>4. /\ \A w \in RecvPool : hand'[w] = IF pc'[w] = "process" THEN Len(processed') + 1 ELSE None
      /\ hand'[IO] = IF pc'[IO] = "enqueue" THEN arrived' ELSE None
      BY DEF RecvInv, RecvSame, recvVars
<1> QED BY <1>2, <1>3, <1>4 DEF RecvInv, RecvSame, recvVars

\* The number of packets in hand, read off the program counters.
LEMMA RecvInHand ==
    ASSUME TypeOK, RecvInv
    PROVE  /\ InHand({IO}) = IF pc[IO] = "enqueue" THEN 1 ELSE 0
           /\ \A w \in RecvPool : pc[w] = "process" => InHand(RecvPool) = 1
           /\ \A w \in RecvPool : pc[w] # "idle" /\ pc[w] # "process" => InHand(RecvPool) = 0
           /\ RecvActive = {} => InHand(RecvPool) = 0
<1> USE DEF InHand, RecvInv, None, TypeOK
<1>1. InHand({IO}) = IF pc[IO] = "enqueue" THEN 1 ELSE 0
      OBVIOUS
<1>2. ASSUME NEW w \in RecvPool, pc[w] = "process" PROVE InHand(RecvPool) = 1
      BY <1>2
<1>3. ASSUME NEW w \in RecvPool, pc[w] # "idle", pc[w] # "process" PROVE InHand(RecvPool) = 0
  <2>1. \A v \in RecvPool : v # w => pc[v] = "idle"
        BY <1>3 DEF OneRecvProcess, RecvActive
  <2> QED BY <1>3, <2>1
<1>4. ASSUME RecvActive = {} PROVE InHand(RecvPool) = 0
      BY <1>4 DEF RecvActive
<1> QED BY <1>1, <1>2, <1>3, <1>4

LEMMA ReceiveDataRecvInv == ASSUME TypeOK, RecvInv, ReceiveData PROVE RecvInv'
<1>1. /\ \A w \in RecvPool : pc'[w] = pc[w] /\ hand'[w] = hand[w]
      /\ pc[IO] = "pending" /\ pc'[IO] = "enqueue"
      /\ hand'[IO] = arrived + 1 /\ arrived' = arrived + 1
      /\ UNCHANGED <<readBuffers, readingPackets, processed>>
      BY LabelsOfKinds, ThreadsAssumption, TypeSplit DEF ReceiveData, Go, PcOK, TypeOK
<1>2. RecvActive' = RecvActive BY <1>1 DEF RecvActive
<1>3. InHand(RecvPool)' = InHand(RecvPool) BY <1>1 DEF InHand
<1>4. InHand({IO}) = 0 BY <1>1, RecvInHand
<1>5. InHand({IO})' = 1 BY <1>1 DEF InHand, None, TypeOK
<1>6. OneRecvProcess' /\ RecvWakeUp'
      BY <1>1, <1>2 DEF RecvInv, OneRecvProcess, RecvWakeUp
<1>7. arrived' = (Len(processed) + InHand(RecvPool) + Len(readBuffers) + InHand({IO}))'
      BY <1>1, <1>3, <1>4, <1>5, InHandNat, Lengths DEF RecvInv
<1>8. hand'[IO] = arrived' /\ arrived' # 0
      BY <1>1, Lengths
<1> QED BY <1>1, <1>3, <1>6, <1>7, <1>8 DEF RecvInv

LEMMA ReceiveEnqueueRecvInv == ASSUME TypeOK, RecvInv, ReceiveEnqueue PROVE RecvInv'
<1>1. /\ \A w \in RecvPool : pc'[w] = pc[w] /\ hand'[w] = hand[w]
      /\ pc[IO] = "enqueue" /\ pc'[IO] = "wake"
      /\ hand'[IO] = None /\ readBuffers' = Append(readBuffers, hand[IO])
      /\ UNCHANGED <<arrived, readingPackets, processed>>
      BY LabelsOfKinds, ThreadsAssumption, TypeSplit DEF ReceiveEnqueue, Go, PcOK, TypeOK
<1>2. RecvActive' = RecvActive BY <1>1 DEF RecvActive
<1>3. InHand(RecvPool)' = InHand(RecvPool) BY <1>1 DEF InHand
<1>4. InHand({IO}) = 1 BY <1>1, RecvInHand
<1>5. InHand({IO})' = 0 BY <1>1 DEF InHand, None
<1>6. OneRecvProcess' /\ RecvWakeUp'
      BY <1>1, <1>2 DEF RecvInv, OneRecvProcess, RecvWakeUp
<1>7. /\ Len(readBuffers') = Len(readBuffers) + 1
      /\ \A i \in 1..Len(readBuffers) : readBuffers'[i] = readBuffers[i]
      /\ readBuffers'[Len(readBuffers) + 1] = arrived
      BY <1>1, AppendProperties DEF RecvInv, TypeOK
<1>8. arrived = Len(processed) + InHand(RecvPool) + Len(readBuffers) + 1
      BY <1>4 DEF RecvInv
<1>9. \A i \in 1..Len(readBuffers') :
          readBuffers'[i] = Len(processed) + InHand(RecvPool) + i
  <2>1. arrived = Len(processed) + InHand(RecvPool) + (Len(readBuffers) + 1)
        BY <1>8, InHandNat, Lengths, SMTT(20)
  <2>2. \A i \in 1..Len(readBuffers) : readBuffers[i] = Len(processed) + InHand(RecvPool) + i
        BY DEF RecvInv
  <2>3. ASSUME NEW i \in 1..Len(readBuffers')
        PROVE  readBuffers'[i] = Len(processed) + InHand(RecvPool) + i
    <3>1. i \in 1..Len(readBuffers) \/ i = Len(readBuffers) + 1 BY <1>7, Lengths
    <3> QED BY <3>1, <1>7, <2>1, <2>2
  <2> QED BY <2>3
<1>10. arrived' = (Len(processed) + InHand(RecvPool) + Len(readBuffers) + InHand({IO}))'
  <2>1. arrived' = arrived /\ Len(processed') = Len(processed)
        BY <1>1
  <2> QED BY <1>3, <1>5, <1>7, <1>8, <2>1, InHandNat, Lengths
<1> QED BY <1>1, <1>3, <1>6, <1>9, <1>10 DEF RecvInv

LEMMA ReceiveWakeRecvInv == ASSUME TypeOK, RecvInv, ReceiveWake PROVE RecvInv'
<1> USE LabelsOfKinds, ThreadsAssumption, TypeSplit DEF ReceiveWake, Go, GoAndStart, PcOK
<1>1. /\ pc[IO] = "wake" /\ pc'[IO] = "rearm" /\ readingPackets' = TRUE
      /\ UNCHANGED <<arrived, readBuffers, processed, hand>>
      OBVIOUS
<1>2. InHand(RecvPool)' = InHand(RecvPool) /\ InHand({IO})' = InHand({IO})
      BY <1>1 DEF InHand
<1>3. /\ \A w \in RecvPool : (pc'[w] = "process") = (pc[w] = "process")
      /\ OneRecvProcess' /\ RecvActive' # {}
  <2>1. CASE readingPackets
    <3>1. \A w \in RecvPool : pc'[w] = pc[w] BY <2>1
    <3> QED BY <1>1, <2>1, <3>1 DEF RecvInv, OneRecvProcess, RecvActive
  <2>2. CASE ~readingPackets
    <3>1. PICK w \in RecvPool : GoAndStart(IO, "wake", "rearm", w, "take")
          BY <2>2
    <3>2. RecvActive = {} BY <2>2 DEF RecvInv, OneRecvProcess
    <3>3. RecvActive' = {w} BY <3>1, <3>2 DEF RecvActive
    <3>4. \A v \in RecvPool : (pc'[v] = "process") = (pc[v] = "process") BY <3>1
    <3> QED BY <1>1, <3>3, <3>4 DEF OneRecvProcess
  <2> QED BY <2>1, <2>2
<1> QED BY <1>1, <1>2, <1>3 DEF RecvInv, RecvWakeUp

LEMMA RecvTakeRecvInv ==
    ASSUME TypeOK, RecvInv, NEW w \in RecvPool, RecvTake(w) PROVE RecvInv'
<1>1. /\ pc[w] = "take" /\ UNCHANGED <<arrived, processed>>
      /\ \A v \in RecvPool \ {w} : pc'[v] = pc[v] /\ pc[v] = "idle" /\ hand'[v] = hand[v]
      /\ pc'[IO] = pc[IO] /\ hand'[IO] = hand[IO]
  <2>1. \A v \in RecvPool \ {w} : pc[v] = "idle"
        BY DEF RecvTake, Go, RecvInv, OneRecvProcess, RecvActive
  <2> QED BY <2>1, LabelsOfKinds, ThreadsAssumption, TypeSplit DEF RecvTake, Go, PcOK, TypeOK
<1>2. InHand(RecvPool) = 0 /\ InHand({IO})' = InHand({IO})
      BY <1>1, RecvInHand DEF InHand
<1>3. CASE readBuffers = << >>
  <2>1. /\ pc'[w] = "idle" /\ readingPackets' = FALSE
        /\ UNCHANGED <<readBuffers, hand>>
        BY <1>3, LabelsOfKinds, TypeSplit DEF RecvTake, Go, PcOK
  <2>2. RecvActive' = {} BY <1>1, <2>1 DEF RecvActive
  <2>3. InHand(RecvPool)' = InHand(RecvPool) BY <2>1 DEF InHand
  <2> QED BY <1>1, <1>2, <1>3, <2>1, <2>2, <2>3 DEF RecvInv, OneRecvProcess, RecvWakeUp
<1>4. CASE readBuffers # << >>
  <2>1. /\ pc'[w] = "process" /\ hand'[w] = Head(readBuffers)
        /\ readBuffers' = Tail(readBuffers) /\ UNCHANGED readingPackets
        BY <1>4, LabelsOfKinds, TypeSplit DEF RecvTake, Go, PcOK, TypeOK
  <2>2. /\ Len(readBuffers') = Len(readBuffers) - 1 /\ Len(readBuffers) > 0
        /\ \A i \in 1..Len(readBuffers') : readBuffers'[i] = readBuffers[i + 1]
        /\ Head(readBuffers) = readBuffers[1]
        BY <1>4, <2>1, HeadTailProperties, Lengths DEF TypeOK
  <2>3. hand'[w] = Len(processed) + 1
    <3>1. readBuffers[1] = Len(processed) + InHand(RecvPool) + 1
          BY <2>2, Lengths DEF RecvInv
    <3> QED BY <3>1, <1>2, <2>1, <2>2, Lengths
  <2>4. InHand(RecvPool)' = 1
    <3>1. hand'[w] # None BY <2>3, Lengths DEF None
    <3> QED BY <3>1 DEF InHand
  <2>5. RecvActive' = RecvActive /\ RecvActive # {}
        BY <1>1, <2>1 DEF RecvActive
  <2>6. OneRecvProcess' /\ RecvWakeUp'
        BY <2>1, <2>5 DEF RecvInv, OneRecvProcess, RecvWakeUp
  <2>7. \A i \in 1..Len(readBuffers') :
            readBuffers'[i] = Len(processed) + InHand(RecvPool)' + i
    <3>1. ASSUME NEW i \in 1..Len(readBuffers')
          PROVE  readBuffers'[i] = Len(processed) + InHand(RecvPool)' + i
      <4>1. i + 1 \in 1..Len(readBuffers) /\ i \in Nat BY <2>2, Lengths
      <4>2. readBuffers[i + 1] = Len(processed) + InHand(RecvPool) + (i + 1)
            BY <4>1 DEF RecvInv
      <4> QED BY <4>1, <4>2, <1>2, <2>2, <2>4, Lengths
    <3> QED BY <3>1
  <2>8. arrived' = (Len(processed) + InHand(RecvPool) + Len(readBuffers) + InHand({IO}))'
        BY <1>1, <1>2, <2>2, <2>4, InHandNat, Lengths DEF RecvInv
  <2> QED BY <1>1, <2>1, <2>3, <2>6, <2>7, <2>8 DEF RecvInv
<1> QED BY <1>3, <1>4

LEMMA RecvProcessRecvInv ==
    ASSUME TypeOK, RecvInv, NEW w \in RecvPool, RecvProcess(w) PROVE RecvInv'
<1>1. /\ pc[w] = "process" /\ pc'[w] \in {"take", "d_test"}
      /\ processed' = Append(processed, hand[w]) /\ hand'[w] = None
      /\ UNCHANGED <<arrived, readBuffers, readingPackets>>
      /\ \A v \in RecvPool \ {w} : pc'[v] = pc[v] /\ pc[v] = "idle" /\ hand'[v] = hand[v]
      /\ pc'[IO] = pc[IO] /\ hand'[IO] = hand[IO]
  <2>1. \A v \in RecvPool \ {w} : pc[v] = "idle"
        BY DEF RecvProcess, Go, RecvInv, OneRecvProcess, RecvActive
  <2> QED BY <2>1, LabelsOfKinds, ThreadsAssumption, TypeSplit DEF RecvProcess, Go, PcOK, TypeOK
<1>2. InHand(RecvPool) = 1 /\ InHand({IO})' = InHand({IO})
      BY <1>1, RecvInHand DEF InHand
<1>3. \A v \in RecvPool : hand'[v] = None
      BY <1>1 DEF RecvInv
<1>4. InHand(RecvPool)' = 0
      BY <1>3 DEF InHand
<1>5. RecvActive' = RecvActive
      BY <1>1 DEF RecvActive
<1>6. OneRecvProcess' /\ RecvWakeUp'
      BY <1>1, <1>5 DEF RecvInv, OneRecvProcess, RecvWakeUp
<1>7. hand[w] = Len(processed) + 1
      BY <1>1 DEF RecvInv
<1>8. /\ Len(processed') = Len(processed) + 1
      /\ \A i \in 1..Len(processed) : processed'[i] = processed[i]
      /\ processed'[Len(processed) + 1] = hand[w]
      BY <1>1, <1>7, AppendProperties, Lengths DEF TypeOK
<1>9. \A i \in 1..Len(processed') : processed'[i] = i
      BY <1>7, <1>8, Lengths DEF RecvInv
<1>10. \A i \in 1..Len(readBuffers') :
            readBuffers'[i] = Len(processed') + InHand(RecvPool)' + i
      BY <1>1, <1>2, <1>4, <1>8, Lengths DEF RecvInv
<1>11. arrived' = (Len(processed) + InHand(RecvPool) + Len(readBuffers) + InHand({IO}))'
      BY <1>1, <1>2, <1>4, <1>8, InHandNat, Lengths DEF RecvInv
<1> QED BY <1>1, <1>3, <1>6, <1>9, <1>10, <1>11 DEF RecvInv

LEMMA DisconnectRecvSame ==
    ASSUME TypeOK, NEW t \in Threads, Disconnect(t) PROVE RecvSame
<1>1. /\ pc[t] \in Disconnecting
      /\ pc'[t] \in Disconnecting \cup {"fault", AfterDisconnect(t)}
      /\ \A u \in Threads \ {t} : pc'[u] = pc[u]
      /\ UNCHANGED <<sendVars, recvVars, hand>>
      BY DisconnectFrame
<1>2. t \in RecvPool => AfterDisconnect(t) = "take"
      BY ThreadsAssumption DEF AfterDisconnect
<1>3. t = IO => AfterDisconnect(t) = "done"
      BY ThreadsAssumption DEF AfterDisconnect
<1>4. \A w \in RecvPool : /\ (pc'[w] = "idle") = (pc[w] = "idle")
                          /\ (pc'[w] = "process") = (pc[w] = "process")
      BY <1>1, <1>2, LabelsOfKinds DEF Disconnecting, Disposing
<1>5. /\ (pc'[IO] = "enqueue") = (pc[IO] = "enqueue")
      /\ (pc'[IO] = "wake") = (pc[IO] = "wake")
      BY <1>1, <1>3, LabelsOfKinds DEF Disconnecting, Disposing
<1> QED BY <1>1, <1>4, <1>5 DEF RecvSame

LEMMA OpenRecvSame == ASSUME TypeOK, Open PROVE RecvSame
<1> USE LabelsOfKinds, ThreadsAssumption, TypeSplit DEF PcOK, Go, GoAndStart, RecvSame, recvVars
<1>1. CASE AssignHandle BY <1>1 DEF AssignHandle
<1>2. CASE OpenFails BY <1>2 DEF OpenFails
<1>3. CASE SetConnected BY <1>3 DEF SetConnected
<1>4. CASE RaiseConnected BY <1>4 DEF RaiseConnected
<1>5. CASE FirstReceive BY <1>5 DEF FirstReceive
<1>6. CASE FirstReceiveFails BY <1>6 DEF FirstReceiveFails
<1> QED BY <1>1, <1>2, <1>3, <1>4, <1>5, <1>6 DEF Open

LEMMA SendRecvSame ==
    ASSUME TypeOK,
           \/ \E s \in Senders : SendAnnounce(s) \/ SendPost(s)
           \/ \E w \in SendPool : SendProcess(w)
    PROVE  RecvSame
<1> SUFFICES /\ UNCHANGED recvVars
             /\ \A u \in RecvPool \cup {IO} : pc'[u] = pc[u] /\ hand'[u] = hand[u]
    BY DEF RecvSame
<1> USE LabelsOfKinds, ThreadsAssumption, TypeSplit DEF PcOK, Go, GoAndStart, recvVars
<1> DEFINE P == /\ UNCHANGED recvVars
                /\ \A u \in RecvPool \cup {IO} : pc'[u] = pc[u] /\ hand'[u] = hand[u]
<1>1. ASSUME NEW s \in Senders, SendAnnounce(s) PROVE P
      BY <1>1 DEF SendAnnounce, TypeOK
<1>2. ASSUME NEW s \in Senders, SendPost(s) PROVE P
      BY <1>2 DEF SendPost, TypeOK
<1>3. ASSUME NEW w \in SendPool, SendProcess(w) PROVE P
  <2>1. CASE SendCheck(w) BY <2>1 DEF SendCheck
  <2>2. CASE SendStop(w) BY <2>2 DEF SendStop
  <2>3. CASE SendDequeue(w) BY <2>3 DEF SendDequeue, TypeOK
  <2>4. CASE SendWrite(w) BY <2>4 DEF SendWrite, TypeOK
  <2>5. CASE SendWriteFails(w) BY <2>5 DEF SendWriteFails, TypeOK
  <2>6. CASE SendRelease(w) BY <2>6 DEF SendRelease
  <2>7. CASE SendClear(w) BY <2>7 DEF SendClear
  <2> QED BY <1>3, <2>1, <2>2, <2>3, <2>4, <2>5, <2>6, <2>7 DEF SendProcess
<1> QED BY <1>1, <1>2, <1>3

LEMMA RecvStep == TypeOK /\ RecvInv /\ [Next]_vars => RecvInv'
<1> SUFFICES ASSUME TypeOK, RecvInv, [Next]_vars PROVE RecvInv'
    OBVIOUS
<1>1. ASSUME NEW t \in Threads, Disconnect(t) PROVE RecvInv'
      BY <1>1, DisconnectRecvSame, RecvFrame
<1>2. CASE Open
      BY <1>2, OpenRecvSame, RecvFrame
<1>3. CASE \/ \E s \in Senders : SendAnnounce(s) \/ SendPost(s)
           \/ \E w \in SendPool : SendProcess(w)
      BY <1>3, SendRecvSame, RecvFrame
<1>4. CASE ReceiveData
      BY <1>4, ReceiveDataRecvInv
<1>5. CASE ReceiveEnqueue
      BY <1>5, ReceiveEnqueueRecvInv
<1>6. CASE ReceiveWake
      BY <1>6, ReceiveWakeRecvInv
<1>7. CASE \/ ReceiveError \/ ReceiveAborted
           \/ ReceiveRearm \/ ReceiveRearmDisposed \/ ReceiveRearmFails
  <2>1. /\ \A u \in RecvPool : pc'[u] = pc[u]
        /\ pc[IO] \in {"pending", "rearm"} /\ pc'[IO] \in {"d_test", "done", "pending"}
        /\ UNCHANGED <<recvVars, hand>>
        BY <1>7, LabelsOfKinds, ThreadsAssumption, TypeSplit
        DEF PcOK, Go, ReceiveError, ReceiveAborted, ReceiveRearm, ReceiveRearmDisposed,
            ReceiveRearmFails
  <2>2. RecvSame BY <2>1 DEF RecvSame
  <2> QED BY <2>2, RecvFrame
<1>8. ASSUME NEW w \in RecvPool, RecvTake(w) PROVE RecvInv'
      BY <1>8, RecvTakeRecvInv
<1>9. ASSUME NEW w \in RecvPool, RecvProcess(w) PROVE RecvInv'
      BY <1>9, RecvProcessRecvInv
<1>10. CASE UNCHANGED vars
  <2>1. RecvSame BY <1>10 DEF vars, RecvSame
  <2> QED BY <2>1, RecvFrame
<1> QED
    BY <1>1, <1>2, <1>3, <1>4, <1>5, <1>6, <1>7, <1>8, <1>9, <1>10 DEF Next, ReceiveCallback

LEMMA RecvInit == Init => RecvInv
<1> SUFFICES ASSUME Init PROVE RecvInv
    OBVIOUS
<1>1. \A t \in Threads : hand[t] = None /\ (t # Opener => pc[t] = "idle")
      BY DEF Init
<1>2. InHand(RecvPool) = 0 /\ InHand({IO}) = 0
      BY <1>1, LabelsOfKinds DEF InHand
<1>3. RecvActive = {}
      BY <1>1, LabelsOfKinds, ThreadsAssumption DEF RecvActive
<1>4. readingPackets = FALSE /\ readBuffers = << >> /\ arrived = 0
      BY DEF Init
<1>6. Len(readBuffers) = 0 /\ Len(processed) = 0
      BY DEF Init
<1>5. \A w \in RecvPool \cup {IO} : pc[w] = "idle" /\ hand[w] = None
      BY <1>1, LabelsOfKinds, ThreadsAssumption
<1>7. OneRecvProcess /\ RecvWakeUp
      BY <1>3, <1>4 DEF OneRecvProcess, RecvWakeUp
<1> QED BY <1>2, <1>4, <1>5, <1>6, <1>7 DEF RecvInv

\* Every chunk that arrives is processed once, in order, whatever disconnects
\* meanwhile; a waiting chunk always has a work item, or one about to start.
THEOREM ReceiveCorrect == Spec => [](OneRecvProcess /\ NoRecvLost /\ RecvWakeUp)
<1>1. RecvInv => OneRecvProcess /\ NoRecvLost /\ RecvWakeUp
      BY DEF RecvInv, NoRecvLost
<1> QED BY <1>1, TypeInit, TypeStep, RecvInit, RecvStep, PTL DEF Spec

-----------------------------------------------------------------------------
(* The session: handle, the socket, Connected.                             *)

\* What the work items, the senders and the receive callback do outside
\* Disconnect: they leave the connection alone, and run only in a session that
\* has been announced.
SessionSame ==
    /\ UNCHANGED <<connVars, pc[Opener]>>
    /\ \A t \in Threads :
          \/ pc'[t] = pc[t]
          \/ pc[t] \notin Disconnecting /\ pc'[t] \notin Disconnecting \ {"d_test"}
    /\ connected \/ \E t \in Threads \ {Opener} : pc[t] # "idle"

LEMMA SendSessionSame ==
    ASSUME TypeOK,
           \/ \E s \in Senders : SendAnnounce(s) \/ SendPost(s)
           \/ \E w \in SendPool : SendProcess(w)
    PROVE  SessionSame
<1> USE LabelsOfKinds, ThreadsAssumption, TypeSplit DEF PcOK, Go, GoAndStart, SessionSame,
                                                       Disconnecting, Disposing, connVars
<1>1. ASSUME NEW s \in Senders, SendAnnounce(s) PROVE SessionSame
      BY <1>1 DEF SendAnnounce
<1>2. ASSUME NEW s \in Senders, SendPost(s) PROVE SessionSame
      BY <1>2 DEF SendPost
<1>3. ASSUME NEW w \in SendPool, SendProcess(w) PROVE SessionSame
  <2>1. CASE SendCheck(w) BY <2>1 DEF SendCheck
  <2>2. CASE SendStop(w) BY <2>2 DEF SendStop
  <2>3. CASE SendDequeue(w) BY <2>3 DEF SendDequeue
  <2>4. CASE SendWrite(w) BY <2>4 DEF SendWrite
  <2>5. CASE SendWriteFails(w) BY <2>5 DEF SendWriteFails
  <2>6. CASE SendRelease(w) BY <2>6 DEF SendRelease
  <2>7. CASE SendClear(w) BY <2>7 DEF SendClear
  <2> QED BY <1>3, <2>1, <2>2, <2>3, <2>4, <2>5, <2>6, <2>7 DEF SendProcess
<1> QED BY <1>1, <1>2, <1>3

LEMMA RecvSessionSame ==
    ASSUME TypeOK,
           \/ ReceiveData \/ ReceiveError \/ ReceiveCallback
           \/ \E w \in RecvPool : RecvTake(w) \/ RecvProcess(w)
    PROVE  SessionSame
<1> USE LabelsOfKinds, ThreadsAssumption, TypeSplit DEF PcOK, Go, GoAndStart, SessionSame,
                                                       Disconnecting, Disposing, connVars
<1>1. CASE ReceiveData BY <1>1 DEF ReceiveData
<1>2. CASE ReceiveError BY <1>2 DEF ReceiveError
<1>3. CASE ReceiveCallback
  <2>1. CASE ReceiveAborted BY <2>1 DEF ReceiveAborted
  <2>2. CASE ReceiveEnqueue BY <2>2 DEF ReceiveEnqueue
  <2>3. CASE ReceiveWake BY <2>3 DEF ReceiveWake
  <2>4. CASE ReceiveRearm BY <2>4 DEF ReceiveRearm
  <2>5. CASE ReceiveRearmDisposed BY <2>5 DEF ReceiveRearmDisposed
  <2>6. CASE ReceiveRearmFails BY <2>6 DEF ReceiveRearmFails
  <2> QED BY <1>3, <2>1, <2>2, <2>3, <2>4, <2>5, <2>6 DEF ReceiveCallback
<1>4. ASSUME NEW w \in RecvPool, RecvTake(w) PROVE SessionSame
      BY <1>4 DEF RecvTake
<1>5. ASSUME NEW w \in RecvPool, RecvProcess(w) PROVE SessionSame
      BY <1>5 DEF RecvProcess
<1> QED BY <1>1, <1>2, <1>3, <1>4, <1>5

LEMMA SessionFrame == ASSUME TypeOK, SessionInv, SessionSame PROVE SessionInv'
<1> USE DEF SessionSame, connVars, Disconnecting, Disposing
<1>1. \A t \in Threads : \A l \in {"d_null", "d_state", "d_set", "d_raise"} :
          pc'[t] = l <=> pc[t] = l
      OBVIOUS
<1>2. pc[Opener] \in {"start", "opened"} \/ (sock = "open" /\ ~connected) => FALSE
      BY DEF SessionInv, Quiet
<1> QED BY <1>1, <1>2 DEF SessionInv

LEMMA FaultFrame == ASSUME TypeOK, FaultInv, SessionSame PROVE FaultInv'
<1>1. \A t \in Threads : \A l \in Disposing : pc'[t] = l <=> pc[t] = l
      BY DEF SessionSame, Disconnecting, Disposing
<1> QED BY <1>1 DEF FaultInv, FaultNeedsOverlap, SessionSame, connVars, Disposing

LEMMA DisconnectSession ==
    ASSUME TypeOK, SessionInv, NEW t \in Threads, Disconnect(t) PROVE SessionInv'
<1>1. /\ pc[t] \in Disconnecting
      /\ pc'[t] \in Disconnecting \cup {"fault", AfterDisconnect(t)}
      /\ \A u \in Threads \ {t} : pc'[u] = pc[u]
      /\ UNCHANGED hand
      BY DisconnectFrame
<1>2. pc \in [Threads -> UNION {Labels(u) : u \in Threads}] /\ Opener \in Threads
      BY LabelsOfKinds DEF TypeOK
<1>3. /\ AfterDisconnect(t) \in {"cleanup", "take", "done"}
      /\ t = Opener => AfterDisconnect(t) = "done"
      BY ThreadsAssumption DEF AfterDisconnect
<1>4. t = Opener \/ ~Quiet
      BY <1>1 DEF Quiet, Disconnecting, Disposing
<1>5. /\ pc[Opener] \notin {"start", "opened"} /\ sock # "none"
      /\ pc'[Opener] \notin {"start", "opened"}
  <2>1. pc[Opener] \notin {"start", "opened"}
        BY <1>1, <1>4 DEF SessionInv, Disconnecting, Disposing
  <2> QED BY <1>1, <1>2, <1>3, <2>1 DEF SessionInv, Disconnecting, Disposing
<1>6. t # Opener \/ pc'[Opener] \notin {"raise", "listen"}
      BY <1>1, <1>3 DEF Disconnecting, Disposing
<1>7. Quiet => Quiet'
      BY <1>1, <1>4 DEF Quiet
<1> USE <1>2, <1>3, <1>5, <1>6, <1>7
<1>8. CASE DisconnectTest(t)
  <2>1. /\ UNCHANGED <<handle, sock, connected, stateEvents>>
        /\ pc[t] = "d_test" /\ pc'[t] = IF handle = "null" THEN "d_state" ELSE "d_close"
        BY <1>8 DEF DisconnectTest, Go
  <2> QED BY <1>1, <2>1 DEF SessionInv, TypeOK
<1>9. CASE DisposeClose(t)
  <2>1. /\ UNCHANGED <<handle, connected, stateEvents>> /\ sock' = "closed"
        /\ pc[t] = "d_close" /\ pc'[t] = "d_null"
        BY <1>9 DEF DisposeClose, Go
  <2> QED BY <1>1, <2>1 DEF SessionInv, TypeOK
<1>10. CASE DisposeFault(t)
  <2>1. /\ UNCHANGED <<handle, sock, connected, stateEvents>>
        /\ pc[t] = "d_close" /\ pc'[t] = "fault"
        BY <1>10 DEF DisposeFault, Go
  <2> QED BY <1>1, <2>1 DEF SessionInv, TypeOK
<1>11. CASE DisposeNull(t)
  <2>1. /\ UNCHANGED <<sock, connected, stateEvents>> /\ handle' = "null"
        /\ pc[t] = "d_null" /\ pc'[t] = "d_state"
        BY <1>11 DEF DisposeNull, Go
  <2> QED BY <1>1, <2>1 DEF SessionInv, TypeOK
<1>12. CASE StateTest(t)
  <2>1. /\ UNCHANGED <<handle, sock, connected, stateEvents>>
        /\ pc[t] = "d_state" /\ pc'[t] = IF connected THEN "d_set" ELSE AfterDisconnect(t)
        BY <1>12 DEF StateTest, Go, connVars
  <2> QED BY <1>1, <2>1 DEF SessionInv, TypeOK
<1>13. CASE StateSet(t)
  <2>1. /\ UNCHANGED <<handle, sock, stateEvents>> /\ connected' = FALSE
        /\ pc[t] = "d_set" /\ pc'[t] = "d_raise"
        BY <1>13 DEF StateSet, Go
  <2> QED BY <1>1, <2>1 DEF SessionInv, TypeOK
<1>14. CASE StateRaise(t)
  <2>1. /\ UNCHANGED <<handle, sock, connected>>
        /\ pc[t] = "d_raise" /\ pc'[t] = AfterDisconnect(t)
        BY <1>14 DEF StateRaise, Go
  <2> QED BY <1>1, <2>1 DEF SessionInv, TypeOK
<1> QED BY <1>8, <1>9, <1>10, <1>11, <1>12, <1>13, <1>14 DEF Disconnect

LEMMA DisconnectFault ==
    ASSUME TypeOK, SessionInv, FaultInv, NEW t \in Threads, Disconnect(t) PROVE FaultInv'
<1>1. /\ pc[t] \in Disconnecting
      /\ \A u \in Threads \ {t} : pc'[u] = pc[u]
      BY DisconnectFrame
<1>2. pc \in [Threads -> UNION {Labels(u) : u \in Threads}]
      BY DEF TypeOK
<1>3. AfterDisconnect(t) \in {"cleanup", "take", "done"}
      BY DEF AfterDisconnect
<1> USE <1>1, <1>2, <1>3 DEF FaultInv, FaultNeedsOverlap, Go, Disposing
<1>4. CASE DisconnectTest(t) BY <1>4 DEF DisconnectTest
<1>5. CASE DisposeClose(t) BY <1>5 DEF DisposeClose
<1>6. CASE DisposeFault(t) BY <1>6 DEF DisposeFault
<1>7. CASE DisposeNull(t) BY <1>7 DEF DisposeNull
<1>8. CASE StateTest(t) BY <1>8 DEF StateTest, connVars
<1>9. CASE StateSet(t) BY <1>9 DEF StateSet
<1>10. CASE StateRaise(t) BY <1>10 DEF StateRaise
<1> QED BY <1>4, <1>5, <1>6, <1>7, <1>8, <1>9, <1>10 DEF Disconnect

LEMMA OpenSession == ASSUME TypeOK, SessionInv, Open PROVE SessionInv'
<1>1. pc \in [Threads -> UNION {Labels(u) : u \in Threads}] /\ Opener \in Threads /\ IO \in Threads
      BY LabelsOfKinds DEF TypeOK
<1> USE <1>1, ThreadsAssumption DEF SessionInv, Go
<1>2. CASE AssignHandle
      BY <1>2 DEF AssignHandle, Quiet
<1>3. CASE OpenFails
      BY <1>3 DEF OpenFails, Quiet, connVars
<1>4. CASE SetConnected
  <2>1. /\ pc[Opener] = "opened" /\ pc'[Opener] = "raise" /\ connected' = TRUE
        /\ \A t \in Threads \ {Opener} : pc'[t] = pc[t] /\ pc[t] = "idle"
        /\ UNCHANGED <<handle, sock, stateEvents>>
        BY <1>4 DEF SetConnected, Quiet
  <2> QED BY <2>1
<1>5. CASE RaiseConnected
      BY <1>5 DEF RaiseConnected, Quiet
<1>6. CASE FirstReceive
      BY <1>6 DEF FirstReceive, GoAndStart, connVars
<1>7. CASE FirstReceiveFails
      BY <1>7 DEF FirstReceiveFails, Quiet, connVars
<1> QED BY <1>2, <1>3, <1>4, <1>5, <1>6, <1>7 DEF Open

LEMMA OpenFault == ASSUME TypeOK, FaultInv, Open PROVE FaultInv'
<1>1. pc \in [Threads -> UNION {Labels(u) : u \in Threads}] /\ Opener \in Threads /\ IO \in Threads
      BY LabelsOfKinds DEF TypeOK
<1> USE <1>1 DEF FaultInv, FaultNeedsOverlap, Go, Disposing
<1>2. CASE AssignHandle BY <1>2 DEF AssignHandle
<1>3. CASE OpenFails BY <1>3 DEF OpenFails, connVars
<1>4. CASE SetConnected BY <1>4 DEF SetConnected
<1>5. CASE RaiseConnected BY <1>5 DEF RaiseConnected
<1>6. CASE FirstReceive BY <1>6 DEF FirstReceive, GoAndStart, connVars
<1>7. CASE FirstReceiveFails BY <1>7 DEF FirstReceiveFails, connVars
<1> QED BY <1>2, <1>3, <1>4, <1>5, <1>6, <1>7 DEF Open

LEMMA SessionInit == Init => SessionInv /\ FaultInv
BY LabelsOfKinds DEF Init, SessionInv, FaultInv, FaultNeedsOverlap, Quiet, Disposing

LEMMA SessionStep == TypeOK /\ SessionInv /\ FaultInv /\ [Next]_vars => SessionInv' /\ FaultInv'
<1> SUFFICES ASSUME TypeOK, SessionInv, FaultInv, [Next]_vars PROVE SessionInv' /\ FaultInv'
    OBVIOUS
<1>1. ASSUME NEW t \in Threads, Disconnect(t) PROVE SessionInv' /\ FaultInv'
      BY <1>1, DisconnectSession, DisconnectFault
<1>2. CASE Open
      BY <1>2, OpenSession, OpenFault
<1>3. CASE \/ \E s \in Senders : SendAnnounce(s) \/ SendPost(s)
           \/ \E w \in SendPool : SendProcess(w)
      BY <1>3, SendSessionSame, SessionFrame, FaultFrame
<1>4. CASE \/ ReceiveData \/ ReceiveError \/ ReceiveCallback
           \/ \E w \in RecvPool : RecvTake(w) \/ RecvProcess(w)
      BY <1>4, RecvSessionSame, SessionFrame, FaultFrame
<1>5. CASE UNCHANGED vars
      BY <1>5 DEF vars, connVars, SessionInv, FaultInv, FaultNeedsOverlap, Quiet
<1> QED BY <1>1, <1>2, <1>3, <1>4, <1>5 DEF Next

\* DisposeHandle fails only when two threads are inside it, and an open socket
\* and Connected go together.
THEOREM SessionCorrect == Spec => [](FaultNeedsOverlap /\ OpenIsConnected)
<1>1. SessionInv /\ FaultInv => FaultNeedsOverlap /\ OpenIsConnected
      BY DEF SessionInv, FaultInv, OpenIsConnected
<1> QED BY <1>1, TypeInit, TypeStep, SessionInit, SessionStep, PTL DEF Spec

-----------------------------------------------------------------------------
(* Sending: who holds the flag, and where each packet is.                  *)

\* What SendPcInv and SendDataInv are about did not change, save that the
\* client may have disconnected.
SendSame ==
    /\ UNCHANGED <<accepted, sendBuffers, sendingPackets, sentOut>>
    /\ \A w \in SendPool : pc'[w] = pc[w] /\ hand'[w] = hand[w]
    /\ connected' => connected
    /\ pc'[Opener] \in {"start", "opened"} => pc[Opener] \in {"start", "opened"}

LEMMA SendPcFrame == ASSUME SendPcInv, SendSame PROVE SendPcInv'
<1>1. SendActive' = SendActive
      BY DEF SendSame, SendActive
<1> QED BY <1>1 DEF SendPcInv, SendSame, OneSendProcess

LEMMA SendDataFrame == ASSUME SendDataInv, SendSame PROVE SendDataInv'
<1>1. SendActive' = SendActive /\ Failing' = Failing
      BY DEF SendSame, SendActive, Failing
<1>2. \A n : Rest(n)' = Rest(n)
      BY DEF SendSame, Rest
<1> QED BY <1>1, <1>2 DEF SendDataInv, SendSame, WireOrder, SendWakeUp

LEMMA DisconnectSendSame ==
    ASSUME TypeOK, SessionInv, NEW t \in Threads \ SendPool, Disconnect(t) PROVE SendSame
<1>1. /\ pc[t] \in Disconnecting
      /\ pc'[t] \in Disconnecting \cup {"fault", AfterDisconnect(t)}
      /\ \A u \in Threads \ {t} : pc'[u] = pc[u]
      /\ UNCHANGED <<sendVars, recvVars, hand>>
      /\ connected' => connected
      BY DisconnectFrame
<1>2. AfterDisconnect(t) \notin {"start", "opened"}
      BY DEF AfterDisconnect
<1> QED BY <1>1, <1>2, LabelsOfKinds DEF SendSame, sendVars, Disconnecting, Disposing

LEMMA OpenSendSame == ASSUME TypeOK, SessionInv, Open PROVE SendSame \/ SetConnected
<1> USE LabelsOfKinds, ThreadsAssumption DEF TypeOK, Go, GoAndStart, SendSame, sendVars
<1>1. CASE AssignHandle BY <1>1 DEF AssignHandle
<1>2. CASE OpenFails BY <1>2 DEF OpenFails, connVars
<1>3. CASE RaiseConnected BY <1>3 DEF RaiseConnected
<1>4. CASE FirstReceive BY <1>4 DEF FirstReceive, connVars
<1>5. CASE FirstReceiveFails BY <1>5 DEF FirstReceiveFails, connVars
<1> QED BY <1>1, <1>2, <1>3, <1>4, <1>5 DEF Open

LEMMA RecvSendSame ==
    ASSUME TypeOK,
           \/ ReceiveData \/ ReceiveError \/ ReceiveCallback
           \/ \E w \in RecvPool : RecvTake(w) \/ RecvProcess(w)
    PROVE  SendSame
<1> USE LabelsOfKinds, ThreadsAssumption DEF TypeOK, Go, GoAndStart, SendSame, sendVars, connVars
<1>1. CASE ReceiveData BY <1>1 DEF ReceiveData
<1>2. CASE ReceiveError BY <1>2 DEF ReceiveError
<1>3. CASE ReceiveCallback
  <2>1. CASE ReceiveAborted BY <2>1 DEF ReceiveAborted
  <2>2. CASE ReceiveEnqueue BY <2>2 DEF ReceiveEnqueue
  <2>3. CASE ReceiveWake BY <2>3 DEF ReceiveWake
  <2>4. CASE ReceiveRearm BY <2>4 DEF ReceiveRearm
  <2>5. CASE ReceiveRearmDisposed BY <2>5 DEF ReceiveRearmDisposed
  <2>6. CASE ReceiveRearmFails BY <2>6 DEF ReceiveRearmFails
  <2> QED BY <1>3, <2>1, <2>2, <2>3, <2>4, <2>5, <2>6 DEF ReceiveCallback
<1>4. ASSUME NEW w \in RecvPool, RecvTake(w) PROVE SendSame
      BY <1>4 DEF RecvTake
<1>5. ASSUME NEW w \in RecvPool, RecvProcess(w) PROVE SendSame
  <2>1. /\ UNCHANGED <<connVars, sendVars>>
        /\ \A u \in Threads \ {w} : pc'[u] = pc[u] /\ hand'[u] = hand[u]
        BY <1>5 DEF RecvProcess
  <2> QED BY <2>1
<1> QED BY <1>1, <1>2, <1>3, <1>4, <1>5

\* A step of one work item: the others stay, and those that are active cannot be
\* but that one.
LEMMA OthersPassive ==
    ASSUME SendPcInv, NEW w \in SendPool, pc[w] \notin {"idle", "clear"}
    PROVE  \A v \in SendPool \ {w} : pc[v] \in {"idle", "clear"}
BY DEF SendPcInv, OneSendProcess, SendActive

LEMMA SendPostPc ==
    ASSUME TypeOK, SendPcInv, NEW s \in Senders, SendPost(s) PROVE SendPcInv'
<1> USE LabelsOfKinds, ThreadsAssumption
<1>1. UNCHANGED connected /\ sendingPackets' = TRUE /\ \A w \in SendPool : hand'[w] = hand[w]
      BY DEF SendPost, connVars, TypeOK
<1>2. CASE sendingPackets
  <2>1. \A w \in SendPool : pc'[w] = pc[w]
        BY <1>2 DEF SendPost, Go, TypeOK
  <2>2. SendActive' = SendActive
        BY <2>1 DEF SendActive
  <2> QED BY <1>1, <1>2, <2>1, <2>2 DEF SendPcInv, OneSendProcess
<1>3. CASE ~sendingPackets
  <2>1. PICK w \in SendPool : GoAndStart(s, "post", "idle", w, "check")
        BY <1>3 DEF SendPost
  <2>2. /\ pc[w] = "idle" /\ pc'[w] = "check"
        /\ \A v \in SendPool \ {w} : pc'[v] = pc[v]
        BY <2>1 DEF GoAndStart, TypeOK
  <2>3. SendActive = {} BY <1>3 DEF SendPcInv, OneSendProcess
  <2>4. SendActive' = {w} BY <2>2, <2>3 DEF SendActive
  <2> QED BY <1>1, <2>2, <2>4 DEF SendPcInv, OneSendProcess
<1> QED BY <1>2, <1>3

LEMMA SendProcessPc ==
    ASSUME TypeOK, SendPcInv, NEW w \in SendPool, SendProcess(w) PROVE SendPcInv'
<1> USE LabelsOfKinds DEF TypeOK, Go, connVars, sendVars
<1>1. /\ pc[w] # "idle" /\ UNCHANGED connected
      /\ \A v \in SendPool \ {w} : pc'[v] = pc[v] /\ hand'[v] = hand[v]
  <2>1. CASE SendCheck(w) BY <2>1 DEF SendCheck
  <2>2. CASE SendStop(w) BY <2>2 DEF SendStop
  <2>3. CASE SendDequeue(w) BY <2>3 DEF SendDequeue
  <2>4. CASE SendWrite(w) BY <2>4 DEF SendWrite
  <2>5. CASE SendWriteFails(w) BY <2>5 DEF SendWriteFails
  <2>6. CASE SendRelease(w) BY <2>6 DEF SendRelease
  <2>7. CASE SendClear(w) BY <2>7 DEF SendClear
  <2> QED BY <2>1, <2>2, <2>3, <2>4, <2>5, <2>6, <2>7 DEF SendProcess
<1>2. pc[w] # "clear" => \A v \in SendPool \ {w} : pc[v] \in {"idle", "clear"}
      BY <1>1, OthersPassive
<1>3. CASE SendCheck(w)
  <2>1. /\ pc[w] = "check" /\ pc'[w] = IF connected THEN "dequeue" ELSE "stop"
        /\ UNCHANGED <<hand, sendingPackets>>
        BY <1>3 DEF SendCheck
  <2>2. SendActive' = SendActive BY <1>1, <2>1 DEF SendActive
  <2> QED BY <1>1, <1>2, <2>1, <2>2 DEF SendPcInv, OneSendProcess
<1>4. CASE SendStop(w)
  <2>1. /\ pc[w] = "stop" /\ pc'[w] = "idle" /\ UNCHANGED hand /\ sendingPackets' = FALSE
        BY <1>4 DEF SendStop
  <2>2. SendActive' = {} BY <1>1, <1>2, <2>1 DEF SendActive
  <2> QED BY <1>1, <1>2, <2>1, <2>2 DEF SendPcInv, OneSendProcess
<1>5. CASE SendDequeue(w)
  <2>1. CASE sendBuffers = << >>
    <3>1. /\ pc[w] = "dequeue" /\ pc'[w] = "idle" /\ UNCHANGED hand /\ sendingPackets' = FALSE
          BY <1>5, <2>1 DEF SendDequeue
    <3>2. SendActive' = {} BY <1>1, <1>2, <3>1 DEF SendActive
    <3> QED BY <1>1, <1>2, <3>1, <3>2 DEF SendPcInv, OneSendProcess
  <2>2. CASE sendBuffers # << >>
    <3>1. /\ pc[w] = "dequeue" /\ pc'[w] = "write" /\ UNCHANGED sendingPackets
          /\ hand'[w] = Head(sendBuffers)
          BY <1>5, <2>2 DEF SendDequeue
    <3>2. SendActive' = SendActive BY <1>1, <3>1 DEF SendActive
    <3> QED BY <1>1, <1>2, <3>1, <3>2 DEF SendPcInv, OneSendProcess
  <2> QED BY <2>1, <2>2
<1>6. CASE SendWrite(w)
  <2>1. /\ pc[w] = "write" /\ pc'[w] = "check" /\ hand'[w] = None /\ UNCHANGED sendingPackets
        BY <1>6 DEF SendWrite
  <2>2. SendActive' = SendActive BY <1>1, <2>1 DEF SendActive
  <2> QED BY <1>1, <1>2, <2>1, <2>2 DEF SendPcInv, OneSendProcess
<1>7. CASE SendWriteFails(w)
  <2>1. /\ pc[w] = "write" /\ pc'[w] = "d_test" /\ hand'[w] = None /\ UNCHANGED sendingPackets
        BY <1>7 DEF SendWriteFails
  <2>2. SendActive' = SendActive BY <1>1, <2>1 DEF SendActive
  <2> QED BY <1>1, <1>2, <2>1, <2>2 DEF SendPcInv, OneSendProcess
<1>8. CASE SendRelease(w)
  <2>1. /\ pc[w] = "cleanup" /\ pc'[w] = "clear" /\ UNCHANGED hand /\ sendingPackets' = FALSE
        BY <1>8 DEF SendRelease
  <2>2. SendActive' = {} BY <1>1, <1>2, <2>1 DEF SendActive
  <2> QED BY <1>1, <1>2, <2>1, <2>2 DEF SendPcInv, OneSendProcess
<1>9. CASE SendClear(w)
  <2>1. /\ pc[w] = "clear" /\ pc'[w] = "idle" /\ UNCHANGED <<hand, sendingPackets>>
        BY <1>9 DEF SendClear
  <2>2. SendActive' = SendActive BY <1>1, <2>1 DEF SendActive
  <2> QED BY <1>1, <2>1, <2>2 DEF SendPcInv, OneSendProcess
<1> QED BY <1>3, <1>4, <1>5, <1>6, <1>7, <1>8, <1>9 DEF SendProcess

LEMMA SendPcInit == Init => SendPcInv
<1> SUFFICES ASSUME Init PROVE SendPcInv
    OBVIOUS
<1>1. \A w \in SendPool : pc[w] = "idle" BY LabelsOfKinds, ThreadsAssumption DEF Init
<1>2. SendActive = {} BY <1>1 DEF SendActive
<1> QED BY <1>1, <1>2 DEF Init, SendPcInv, OneSendProcess

LEMMA DisconnectSendPc ==
    ASSUME TypeOK, SessionInv, SendPcInv, NEW w \in SendPool, Disconnect(w) PROVE SendPcInv'
<1>1. /\ pc[w] \in Disconnecting
      /\ pc'[w] \in Disconnecting \cup {"fault", "cleanup"}
      /\ \A u \in Threads \ {w} : pc'[u] = pc[u]
      /\ UNCHANGED <<sendVars, hand>>
      /\ connected' => connected
  <2>1. AfterDisconnect(w) = "cleanup" BY ThreadsAssumption DEF AfterDisconnect
  <2> QED BY <2>1, DisconnectFrame, LabelsOfKinds
<1>2. pc'[w] = "cleanup" => ~connected'
      BY LabelsOfKinds
      DEF Disconnect, DisconnectTest, DisposeClose, DisposeFault, DisposeNull, StateTest,
          StateSet, StateRaise, Go, SessionInv, TypeOK, connVars
<1>3. SendActive' = SendActive
      BY <1>1, LabelsOfKinds DEF SendActive, Disconnecting, Disposing
<1>4. \A v \in SendPool \ {w} : pc[v] = "idle"
  <2>1. \A v \in SendPool \ {w} : pc[v] \in {"idle", "clear"}
        BY <1>1, OthersPassive DEF Disconnecting, Disposing
  <2> QED BY <1>1, <2>1 DEF SendPcInv, Disconnecting, Disposing
<1> QED
    BY <1>1, <1>2, <1>3, <1>4, LabelsOfKinds
    DEF SendPcInv, OneSendProcess, sendVars, Disconnecting, Disposing

LEMMA SetConnectedSendPc ==
    ASSUME TypeOK, SessionInv, SendPcInv, SetConnected PROVE SendPcInv'
<1>1. \A w \in SendPool : pc[w] = "idle" /\ pc'[w] = "idle"
      BY LabelsOfKinds, ThreadsAssumption DEF SetConnected, Go, SessionInv, Quiet, TypeOK
<1>2. SendActive = {} /\ SendActive' = {} /\ UNCHANGED sendingPackets
      BY <1>1 DEF SendActive, SetConnected, sendVars
<1> QED BY <1>1, <1>2 DEF SendPcInv, OneSendProcess

LEMMA SendPcStep == TypeOK /\ SessionInv /\ SendPcInv /\ [Next]_vars => SendPcInv'
<1> SUFFICES ASSUME TypeOK, SessionInv, SendPcInv, [Next]_vars PROVE SendPcInv'
    OBVIOUS
<1>1. ASSUME NEW t \in Threads, Disconnect(t) PROVE SendPcInv'
  <2>1. CASE t \in SendPool BY <1>1, <2>1, DisconnectSendPc
  <2>2. CASE t \notin SendPool BY <1>1, <2>2, DisconnectSendSame, SendPcFrame
  <2> QED BY <2>1, <2>2
<1>2. CASE Open
      BY <1>2, OpenSendSame, SendPcFrame, SetConnectedSendPc
<1>3. ASSUME NEW s \in Senders, SendAnnounce(s) PROVE SendPcInv'
  <2>1. SendSame
        BY <1>3, LabelsOfKinds, ThreadsAssumption
        DEF SendAnnounce, Go, TypeOK, SendSame, connVars
  <2> QED BY <2>1, SendPcFrame
<1>4. ASSUME NEW s \in Senders, SendPost(s) PROVE SendPcInv'
      BY <1>4, SendPostPc
<1>5. ASSUME NEW w \in SendPool, SendProcess(w) PROVE SendPcInv'
      BY <1>5, SendProcessPc
<1>6. CASE \/ ReceiveData \/ ReceiveError \/ ReceiveCallback
           \/ \E w \in RecvPool : RecvTake(w) \/ RecvProcess(w)
      BY <1>6, RecvSendSame, SendPcFrame
<1>7. CASE UNCHANGED vars
  <2>1. SendSame BY <1>7 DEF vars, connVars, sendVars, SendSame
  <2> QED BY <2>1, SendPcFrame
<1> QED BY <1>1, <1>2, <1>3, <1>4, <1>5, <1>6, <1>7 DEF Next

\* Enqueueing adds to both ends of Rest.
LEMMA RestPost ==
    ASSUME TypeOK, NEW n \in Nat, NEW x \in Nat, Rest(n),
           accepted' = Append(accepted, x), sendBuffers' = Append(sendBuffers, x)
    PROVE  Rest(n)'
<1>1. /\ Len(accepted') = Len(accepted) + 1
      /\ \A i \in 1..Len(accepted) : accepted'[i] = accepted[i]
      /\ accepted'[Len(accepted) + 1] = x
      BY AppendProperties DEF TypeOK
<1>2. /\ Len(sendBuffers') = Len(sendBuffers) + 1
      /\ \A i \in 1..Len(sendBuffers) : sendBuffers'[i] = sendBuffers[i]
      /\ sendBuffers'[Len(sendBuffers) + 1] = x
      BY AppendProperties DEF TypeOK
<1>3. Len(accepted') = n + Len(sendBuffers')
      BY <1>1, <1>2, Lengths DEF Rest
<1>4. ASSUME NEW i \in 1..Len(sendBuffers') PROVE sendBuffers'[i] = accepted'[n + i]
  <2>1. CASE i \in 1..Len(sendBuffers)
    <3>1. n + i \in 1..Len(accepted) BY <2>1, Lengths DEF Rest
    <3> QED BY <1>1, <1>2, <2>1, <3>1 DEF Rest
  <2>2. CASE i = Len(sendBuffers) + 1
    <3>1. n + i = Len(accepted) + 1 BY <2>2, Lengths DEF Rest
    <3> QED BY <1>1, <1>2, <2>2, <3>1
  <2>3. i \in Nat /\ 1 <= i /\ i <= Len(sendBuffers) + 1
        BY <1>2, Lengths
  <2>4. i \in 1..Len(sendBuffers) \/ i = Len(sendBuffers) + 1
        BY <2>3, Lengths
  <2> QED BY <2>1, <2>2, <2>4
<1> QED BY <1>3, <1>4 DEF Rest

\* Dequeueing moves the first of the rest out of it.
LEMMA RestDequeue ==
    ASSUME TypeOK, NEW n \in Nat, Rest(n), sendBuffers # << >>,
           UNCHANGED accepted, sendBuffers' = Tail(sendBuffers)
    PROVE  Rest(n + 1)' /\ Head(sendBuffers) = accepted[n + 1]
<1>1. /\ Len(sendBuffers') = Len(sendBuffers) - 1 /\ Len(sendBuffers) > 0
      /\ \A i \in 1..Len(sendBuffers') : sendBuffers'[i] = sendBuffers[i + 1]
      /\ Head(sendBuffers) = sendBuffers[1]
      BY HeadTailProperties, Lengths DEF TypeOK
<1>2. Head(sendBuffers) = accepted[n + 1]
      BY <1>1, Lengths DEF Rest
<1>3. Len(accepted') = (n + 1) + Len(sendBuffers')
      BY <1>1, Lengths, SMTT(20) DEF Rest
<1>4. ASSUME NEW i \in 1..Len(sendBuffers') PROVE sendBuffers'[i] = accepted'[(n + 1) + i]
  <2>1. i + 1 \in 1..Len(sendBuffers) /\ i \in Nat BY <1>1, Lengths
  <2>2. sendBuffers[i + 1] = accepted[n + (i + 1)] BY <2>1 DEF Rest
  <2>3. n + (i + 1) = (n + 1) + i BY <2>1
  <2> QED BY <1>1, <2>2, <2>3
<1> QED BY <1>2, <1>3, <1>4 DEF Rest

LEMMA SendPostData ==
    ASSUME TypeOK, SessionInv, SendPcInv, SendDataInv, NEW s \in Senders, SendPost(s)
    PROVE  SendDataInv'
<1>1. /\ UNCHANGED <<sentOut, connected>> /\ pc[s] = "post" /\ hand[s] \in Nat
      /\ accepted' = Append(accepted, hand[s]) /\ sendBuffers' = Append(sendBuffers, hand[s])
      /\ pc'[Opener] = pc[Opener]
      BY LabelsOfKinds, ThreadsAssumption DEF SendPost, Go, GoAndStart, TypeOK, connVars
<1>2. pc[Opener] \notin {"start", "opened"}
      BY <1>1, LabelsOfKinds, ThreadsAssumption DEF SessionInv, Quiet
<1>3. \A w \in SendPool : pc'[w] = pc[w] \/ (pc[w] = "idle" /\ pc'[w] = "check")
      BY LabelsOfKinds, ThreadsAssumption DEF SendPost, Go, GoAndStart, TypeOK
<1>4. \A w \in SendPool : hand'[w] = hand[w]
      BY LabelsOfKinds, ThreadsAssumption DEF SendPost, TypeOK
<1>5. Failing' = Failing
      BY <1>3 DEF Failing, Disconnecting, Disposing
<1>6. SendActive' # {}
      BY SendPostPc DEF SendPcInv, OneSendProcess, SendPost
<1>7. /\ Len(accepted') = Len(accepted) + 1
      /\ \A i \in 1..Len(accepted) : accepted'[i] = accepted[i]
      BY <1>1, AppendProperties DEF TypeOK
<1>8. WireOrder'
      BY <1>1, <1>7, Lengths DEF SendDataInv, WireOrder
<1>9. \A n \in Nat : Rest(n) => Rest(n)'
      BY <1>1, RestPost
<1>10. \A n \in Nat : Rest(n) => n <= Len(accepted)
      BY Lengths DEF Rest
<1>11. Len(sentOut') = Len(sentOut) /\ Len(sentOut) \in Nat /\ Len(sentOut) + 1 \in Nat
      BY <1>1, Lengths
<1>12. /\ Rest(Len(sentOut)) => Rest(Len(sentOut))'
       /\ Rest(Len(sentOut) + 1) => Rest(Len(sentOut) + 1)'
      BY <1>9, <1>11, ZenonT(60) DEF Rest
<1>13. connected' /\ ~Failing' /\ (\A w \in SendPool : pc'[w] # "write") => Rest(Len(sentOut))'
      BY <1>1, <1>3, <1>5, <1>12 DEF SendDataInv
<1>14. \A w \in SendPool : pc'[w] = "dequeue" => Rest(Len(sentOut))'
      BY <1>3, <1>12 DEF SendDataInv
<1>15. ASSUME NEW w \in SendPool, pc'[w] = "write"
       PROVE  Rest(Len(sentOut) + 1)' /\ hand'[w] = accepted'[Len(sentOut') + 1]
  <2>1. pc[w] = "write" BY <1>3, <1>15
  <2>2. Rest(Len(sentOut) + 1) /\ hand[w] = accepted[Len(sentOut) + 1]
        BY <2>1 DEF SendDataInv
  <2>3. Len(sentOut) + 1 \in 1..Len(accepted)
        BY <2>2, <1>10, <1>11, Lengths
  <2> QED BY <1>4, <1>7, <1>11, <1>12, <2>2, <2>3
<1> QED BY <1>1, <1>2, <1>6, <1>8, <1>13, <1>14, <1>15 DEF SendDataInv, SendWakeUp

\* Steps of the work item, one lemma per action that moves a packet.
LEMMA SendDequeueData ==
    ASSUME TypeOK, SessionInv, SendPcInv, SendDataInv, NEW w \in SendPool, SendDequeue(w)
    PROVE  SendDataInv'
<1>1. /\ UNCHANGED <<accepted, sentOut, connected>> /\ pc[w] = "dequeue"
      /\ pc'[Opener] = pc[Opener]
      /\ \A v \in SendPool \ {w} : pc'[v] = pc[v] /\ pc[v] \in {"idle", "clear"}
  <2>1. \A v \in SendPool \ {w} : pc[v] \in {"idle", "clear"}
        BY OthersPassive DEF SendDequeue, Go
  <2> QED BY <2>1, LabelsOfKinds, ThreadsAssumption DEF SendDequeue, Go, TypeOK, connVars
<1>2. Rest(Len(sentOut)) /\ Len(sentOut) \in Nat
      BY <1>1, Lengths DEF SendDataInv
<1>3. WireOrder'
      BY <1>1 DEF SendDataInv, WireOrder
<1>4. pc[Opener] \notin {"start", "opened"}
      BY <1>1, LabelsOfKinds, ThreadsAssumption DEF SessionInv, Quiet
<1>5. CASE sendBuffers = << >>
  <2>1. pc'[w] = "idle" /\ UNCHANGED sendBuffers
        BY <1>5, LabelsOfKinds DEF SendDequeue, Go, TypeOK
  <2>2. Rest(Len(sentOut))'
        BY <1>1, <1>2, <2>1 DEF Rest
  <2> QED BY <1>1, <1>3, <1>4, <1>5, <2>1, <2>2 DEF SendDataInv, SendWakeUp
<1>6. CASE sendBuffers # << >>
  <2>1. /\ pc'[w] = "write" /\ sendBuffers' = Tail(sendBuffers)
        /\ hand'[w] = Head(sendBuffers)
        BY <1>6, LabelsOfKinds DEF SendDequeue, Go, TypeOK
  <2>2. Rest(Len(sentOut) + 1)' /\ Head(sendBuffers) = accepted[Len(sentOut) + 1]
    <3>1. PICK n \in Nat : n = Len(sentOut) BY <1>2
    <3>2. Rest(n + 1)' /\ Head(sendBuffers) = accepted[n + 1]
          BY <1>1, <1>2, <1>6, <2>1, <3>1, RestDequeue
    <3> QED BY <1>1, <3>1, <3>2 DEF Rest
  <2>3. SendActive' # {} BY <2>1 DEF SendActive
  <2> QED BY <1>1, <1>3, <1>4, <2>1, <2>2, <2>3 DEF SendDataInv, SendWakeUp
<1> QED BY <1>5, <1>6

LEMMA SendWriteData ==
    ASSUME TypeOK, SessionInv, SendPcInv, SendDataInv, NEW w \in SendPool, SendWrite(w)
    PROVE  SendDataInv'
<1>1. /\ UNCHANGED <<accepted, sendBuffers, connected>> /\ pc[w] = "write" /\ pc'[w] = "check"
      /\ sentOut' = Append(sentOut, hand[w]) /\ hand[w] \in Nat
      /\ pc'[Opener] = pc[Opener]
      /\ \A v \in SendPool \ {w} : pc'[v] = pc[v] /\ pc[v] \in {"idle", "clear"}
  <2>1. \A v \in SendPool \ {w} : pc[v] \in {"idle", "clear"}
        BY OthersPassive DEF SendWrite, Go
  <2> QED BY <2>1, LabelsOfKinds, ThreadsAssumption DEF SendWrite, Go, TypeOK, connVars
<1>2. Rest(Len(sentOut) + 1) /\ hand[w] = accepted[Len(sentOut) + 1]
      BY <1>1 DEF SendDataInv
<1>3. /\ Len(sentOut') = Len(sentOut) + 1
      /\ \A i \in 1..Len(sentOut) : sentOut'[i] = sentOut[i]
      /\ sentOut'[Len(sentOut) + 1] = hand[w]
      BY <1>1, AppendProperties DEF TypeOK
<1>4. Rest(Len(sentOut))'
      BY <1>1, <1>2, <1>3 DEF Rest
<1>5. WireOrder'
  <2>1. Len(sentOut') <= Len(accepted')
        BY <1>1, <1>2, <1>3, Lengths DEF Rest
  <2>2. ASSUME NEW i \in 1..Len(sentOut') PROVE sentOut'[i] = accepted'[i]
    <3>1. i \in 1..Len(sentOut) \/ i = Len(sentOut) + 1 BY <1>3, Lengths
    <3> QED BY <1>1, <1>2, <1>3, <3>1 DEF SendDataInv, WireOrder
  <2> QED BY <2>1, <2>2 DEF WireOrder
<1>6. pc[Opener] \notin {"start", "opened"}
      BY <1>1, LabelsOfKinds, ThreadsAssumption DEF SessionInv, Quiet
<1>7. SendActive' # {} BY <1>1 DEF SendActive
<1> QED BY <1>1, <1>4, <1>5, <1>6, <1>7 DEF SendDataInv, SendWakeUp

LEMMA SendQuietData ==
    ASSUME TypeOK, SessionInv, SendPcInv, SendDataInv, NEW w \in SendPool,
           SendCheck(w) \/ SendStop(w) \/ SendWriteFails(w) \/ SendRelease(w)
    PROVE  SendDataInv'
<1>1. /\ UNCHANGED <<accepted, sendBuffers, sentOut, connected>> /\ pc'[Opener] = pc[Opener]
      /\ pc[w] \in {"check", "stop", "write", "cleanup"}
      /\ \A v \in SendPool \ {w} : pc'[v] = pc[v] /\ pc[v] \in {"idle", "clear"}
  <2>1. \A v \in SendPool \ {w} : pc[v] \in {"idle", "clear"}
        BY OthersPassive DEF SendCheck, SendStop, SendWriteFails, SendRelease, Go
  <2> QED BY <2>1, LabelsOfKinds, ThreadsAssumption
          DEF SendCheck, SendStop, SendWriteFails, SendRelease, Go, TypeOK, connVars, sendVars
<1>2. WireOrder' /\ \A n : Rest(n)' = Rest(n)
      BY <1>1 DEF SendDataInv, WireOrder, Rest
<1>3. pc[Opener] \notin {"start", "opened"}
      BY <1>1, LabelsOfKinds, ThreadsAssumption DEF SessionInv, Quiet
<1>4. CASE SendCheck(w)
  <2>1. pc[w] = "check" /\ pc'[w] = IF connected THEN "dequeue" ELSE "stop"
        BY <1>4, LabelsOfKinds DEF SendCheck, Go, TypeOK
  <2>2. connected => \A v \in SendPool \ {w} : pc[v] = "idle"
        BY <1>1 DEF SendPcInv
  <2>3. connected => Rest(Len(sentOut))
        BY <2>1, <2>2 DEF SendDataInv, Failing, Disconnecting, Disposing
  <2>4. SendActive' # {} BY <2>1 DEF SendActive
  <2> QED BY <1>1, <1>2, <1>3, <2>1, <2>3, <2>4 DEF SendDataInv, SendWakeUp
<1>5. CASE SendStop(w) \/ SendRelease(w)
  <2>1. pc[w] \in {"stop", "cleanup"} /\ pc'[w] \in {"idle", "clear"}
        BY <1>5, LabelsOfKinds DEF SendStop, SendRelease, Go, TypeOK
  <2>2. ~connected' BY <1>1, <2>1 DEF SendPcInv
  <2> QED BY <1>1, <1>2, <1>3, <2>1, <2>2 DEF SendDataInv, SendWakeUp
<1>6. CASE SendWriteFails(w)
  <2>1. pc'[w] = "d_test"
        BY <1>6, LabelsOfKinds DEF SendWriteFails, Go, TypeOK
  <2>2. Failing' /\ SendActive' # {}
        BY <2>1 DEF Failing, SendActive, Disconnecting
  <2> QED BY <1>1, <1>2, <1>3, <2>1, <2>2 DEF SendDataInv, SendWakeUp
<1> QED BY <1>4, <1>5, <1>6

LEMMA SendClearData ==
    ASSUME TypeOK, SessionInv, SendPcInv, SendDataInv, NEW w \in SendPool, SendClear(w)
    PROVE  SendDataInv'
<1>1. /\ UNCHANGED <<accepted, sentOut, connected>> /\ pc'[Opener] = pc[Opener]
      /\ pc[w] = "clear" /\ pc'[w] = "idle"
      /\ \A v \in SendPool \ {w} : pc'[v] = pc[v]
      BY LabelsOfKinds, ThreadsAssumption DEF SendClear, Go, TypeOK, connVars
<1>2. ~connected' /\ \A v \in SendPool : pc'[v] \notin {"dequeue", "write"}
      BY <1>1 DEF SendPcInv
<1>3. pc[Opener] \notin {"start", "opened"}
      BY <1>1, LabelsOfKinds, ThreadsAssumption DEF SessionInv, Quiet
<1> QED BY <1>1, <1>2, <1>3 DEF SendDataInv, SendWakeUp, WireOrder

LEMMA DisconnectSendData ==
    ASSUME TypeOK, SessionInv, SendPcInv, SendDataInv, NEW w \in SendPool, Disconnect(w)
    PROVE  SendDataInv'
<1>1. /\ pc[w] \in Disconnecting
      /\ pc'[w] \in Disconnecting \cup {"fault", "cleanup"}
      /\ \A u \in Threads \ {w} : pc'[u] = pc[u]
      /\ UNCHANGED <<accepted, sendBuffers, sentOut>>
      /\ connected' => connected
  <2>1. AfterDisconnect(w) = "cleanup" BY ThreadsAssumption DEF AfterDisconnect
  <2> QED BY <2>1, DisconnectFrame, LabelsOfKinds DEF sendVars
<1>2. \A v \in SendPool \ {w} : pc'[v] \in {"idle", "clear"}
      BY <1>1, OthersPassive, LabelsOfKinds DEF Disconnecting, Disposing
<1>3. Failing' /\ SendActive' # {}
      BY <1>1 DEF Failing, SendActive, Disconnecting, Disposing
<1>4. pc'[Opener] = pc[Opener]
      BY <1>1, LabelsOfKinds, ThreadsAssumption
<1>5. pc[Opener] \notin {"start", "opened"}
      BY <1>1, LabelsOfKinds, ThreadsAssumption DEF SessionInv, Quiet, Disconnecting, Disposing
<1>6. pc'[w] \notin {"dequeue", "write"}
      BY <1>1 DEF Disconnecting, Disposing
<1> QED BY <1>1, <1>2, <1>3, <1>4, <1>5, <1>6 DEF SendDataInv, SendWakeUp, WireOrder

LEMMA SetConnectedData ==
    ASSUME TypeOK, SessionInv, SendDataInv, SetConnected PROVE SendDataInv'
<1>1. /\ \A w \in SendPool : pc'[w] = "idle"
      /\ UNCHANGED <<accepted, sendBuffers, sentOut>>
      /\ accepted = << >> /\ sendBuffers = << >> /\ sentOut = << >>
      BY LabelsOfKinds, ThreadsAssumption
      DEF SetConnected, Go, SessionInv, Quiet, TypeOK, sendVars, SendDataInv
<1>2. Rest(Len(sentOut))' /\ WireOrder'
      BY <1>1 DEF Rest, WireOrder
<1>3. pc'[Opener] = "raise"
      BY LabelsOfKinds DEF SetConnected, Go, TypeOK
<1> QED BY <1>1, <1>2, <1>3 DEF SendDataInv, SendWakeUp

LEMMA SendDataInit == Init => SendDataInv
<1> SUFFICES ASSUME Init PROVE SendDataInv
    OBVIOUS
<1>1. /\ accepted = << >> /\ sendBuffers = << >> /\ sentOut = << >> /\ connected = FALSE
      /\ \A w \in SendPool : pc[w] = "idle"
      BY LabelsOfKinds, ThreadsAssumption DEF Init
<1>2. WireOrder /\ Rest(Len(sentOut))
      BY <1>1 DEF WireOrder, Rest
<1> QED BY <1>1, <1>2 DEF SendDataInv, SendWakeUp

LEMMA SendDataStep ==
    TypeOK /\ SessionInv /\ SendPcInv /\ SendDataInv /\ [Next]_vars => SendDataInv'
<1> SUFFICES ASSUME TypeOK, SessionInv, SendPcInv, SendDataInv, [Next]_vars PROVE SendDataInv'
    OBVIOUS
<1>1. ASSUME NEW t \in Threads, Disconnect(t) PROVE SendDataInv'
  <2>1. CASE t \in SendPool BY <1>1, <2>1, DisconnectSendData
  <2>2. CASE t \notin SendPool BY <1>1, <2>2, DisconnectSendSame, SendDataFrame
  <2> QED BY <2>1, <2>2
<1>2. CASE Open
      BY <1>2, OpenSendSame, SendDataFrame, SetConnectedData
<1>3. ASSUME NEW s \in Senders, SendAnnounce(s) PROVE SendDataInv'
  <2>1. SendSame
        BY <1>3, LabelsOfKinds, ThreadsAssumption
        DEF SendAnnounce, Go, TypeOK, SendSame, connVars
  <2> QED BY <2>1, SendDataFrame
<1>4. ASSUME NEW s \in Senders, SendPost(s) PROVE SendDataInv'
      BY <1>4, SendPostData
<1>5. ASSUME NEW w \in SendPool, SendProcess(w) PROVE SendDataInv'
      BY <1>5, SendQuietData, SendDequeueData, SendWriteData, SendClearData DEF SendProcess
<1>6. CASE \/ ReceiveData \/ ReceiveError \/ ReceiveCallback
           \/ \E w \in RecvPool : RecvTake(w) \/ RecvProcess(w)
      BY <1>6, RecvSendSame, SendDataFrame
<1>7. CASE UNCHANGED vars
  <2>1. SendSame BY <1>7 DEF vars, connVars, sendVars, SendSame
  <2> QED BY <2>1, SendDataFrame
<1> QED BY <1>1, <1>2, <1>3, <1>4, <1>5, <1>6, <1>7 DEF Next

LEMMA SendDataNoLoss == ASSUME TypeOK, SendPcInv, SendDataInv PROVE NoSendLost
<1> SUFFICES ASSUME connected, \A w \in SendActive : pc[w] \in {"check", "dequeue", "write"}
             PROVE  Rest(Len(sentOut) + Writing)
    BY Lengths DEF NoSendLost, Rest
<1>1. ~Failing
      BY DEF Failing, SendActive, SendPcInv, Disconnecting, Disposing
<1>2. CASE \E w \in SendPool : pc[w] = "write"
      BY <1>2 DEF Writing, SendDataInv
<1>3. CASE \A w \in SendPool : pc[w] # "write"
  <2>1. Rest(Len(sentOut)) BY <1>1, <1>3 DEF SendDataInv
  <2>2. Len(sentOut) + Writing = Len(sentOut) BY <1>3, Lengths DEF Writing
  <2> QED BY <2>1, <2>2
<1> QED BY <1>2, <1>3

\* The socket carries what Send accepted, in that order; one work item drains
\* sendBuffers at a time, and a packet that waits in it while the client is connected
\* has one.
THEOREM SendCorrect == Spec => [](OneSendProcess /\ WireOrder /\ SendWakeUp)
<1>1. SendPcInv /\ SendDataInv => OneSendProcess /\ WireOrder /\ SendWakeUp
      BY DEF SendPcInv, SendDataInv
<1> QED
    BY <1>1, TypeInit, TypeStep, SessionInit, SessionStep, SendPcInit, SendPcStep,
       SendDataInit, SendDataStep, PTL DEF Spec

\* No packet that Send accepted is lost before a write fails (Client.cs:395-434), however
\* the senders and the work items interleave.
THEOREM NothingLostCorrect == Spec => []NoSendLost
<1>1. TypeOK /\ SendPcInv /\ SendDataInv => NoSendLost
      BY SendDataNoLoss
<1> QED
    BY <1>1, TypeInit, TypeStep, SessionInit, SessionStep, SendPcInit, SendPcStep,
       SendDataInit, SendDataStep, PTL DEF Spec

-----------------------------------------------------------------------------
(* Action properties.                                                      *)

\* A step that writes or receives is one of the two that use the open socket.
LEMMA TrafficStep ==
    ASSUME TypeOK, SessionInv, [Next]_vars, sentOut' # sentOut \/ arrived' # arrived
    PROVE  connected
<1>1. ASSUME NEW t \in Threads, Disconnect(t) PROVE FALSE
      BY <1>1, DisconnectFrame DEF sendVars, recvVars
<1>2. ASSUME Open PROVE FALSE
      BY <1>2 DEF Open, AssignHandle, OpenFails, SetConnected, RaiseConnected, FirstReceive,
                  FirstReceiveFails, sendVars, recvVars
<1>3. ASSUME NEW s \in Senders, SendAnnounce(s) \/ SendPost(s) PROVE FALSE
      BY <1>3 DEF SendAnnounce, SendPost, recvVars
<1>4. ASSUME NEW w \in SendPool, SendProcess(w) PROVE sock = "open" /\ pc[w] = "write"
      BY <1>4 DEF SendProcess, SendCheck, SendStop, SendDequeue, SendWrite, SendWriteFails,
                  SendRelease, SendClear, sendVars, recvVars, Go
<1>5. ASSUME ReceiveData \/ ReceiveError \/ ReceiveCallback
      PROVE  sock = "open" /\ pc[IO] = "pending"
      BY <1>5 DEF ReceiveData, ReceiveError, ReceiveCallback, ReceiveAborted, ReceiveEnqueue,
                  ReceiveWake, ReceiveRearm, ReceiveRearmDisposed, ReceiveRearmFails,
                  sendVars, recvVars, Go
<1>6. ASSUME NEW w \in RecvPool, RecvTake(w) \/ RecvProcess(w) PROVE FALSE
      BY <1>6 DEF RecvTake, RecvProcess, sendVars
<1>7. ASSUME UNCHANGED vars PROVE FALSE
      BY <1>7 DEF vars, sendVars, recvVars
<1>8. sock = "open" /\ \E t \in Threads \ {Opener} : pc[t] # "idle"
      BY <1>1, <1>2, <1>3, <1>4, <1>5, <1>6, <1>7, LabelsOfKinds, ThreadsAssumption DEF Next
<1> QED BY <1>8 DEF SessionInv, Quiet

\* Only SetConnected sets Connected, in a session that has raised no event yet.
LEMMA ConnectedStep ==
    ASSUME TypeOK, SessionInv, [Next]_vars, ~connected, connected' PROVE stateEvents = << >>
<1>1. ASSUME NEW t \in Threads, Disconnect(t) PROVE FALSE
      BY <1>1, DisconnectFrame
<1>2. ASSUME \/ \E s \in Senders : SendAnnounce(s) \/ SendPost(s)
             \/ \E w \in SendPool : SendProcess(w)
      PROVE  FALSE
      BY <1>2, SendSessionSame DEF SessionSame, connVars
<1>3. ASSUME \/ ReceiveData \/ ReceiveError \/ ReceiveCallback
             \/ \E w \in RecvPool : RecvTake(w) \/ RecvProcess(w)
      PROVE  FALSE
      BY <1>3, RecvSessionSame DEF SessionSame, connVars
<1>4. ASSUME UNCHANGED vars PROVE FALSE
      BY <1>4 DEF vars, connVars
<1>5. ASSUME Open PROVE pc[Opener] = "opened"
      BY <1>5 DEF Open, AssignHandle, OpenFails, SetConnected, RaiseConnected, FirstReceive,
                  FirstReceiveFails, connVars, Go
<1> QED BY <1>1, <1>2, <1>3, <1>4, <1>5 DEF Next, SessionInv

\* Bytes are written and chunks received only while Connected.
THEOREM TrafficCorrect == Spec => TrafficOnlyWhileConnected
<1>1. TypeOK /\ SessionInv /\ [Next]_vars
         => [sentOut' # sentOut \/ arrived' # arrived => connected]_vars
      BY TrafficStep
<1> QED BY <1>1, TypeInit, TypeStep, SessionInit, SessionStep, PTL
        DEF Spec, TrafficOnlyWhileConnected

\* A session is announced at most once.
THEOREM ConnectedOnceCorrect == Spec => ConnectedOnce
<1>1. TypeOK /\ SessionInv /\ [Next]_vars
         => [~connected /\ connected' => stateEvents = << >>]_vars
      BY ConnectedStep
<1> QED BY <1>1, TypeInit, TypeStep, SessionInit, SessionStep, PTL DEF Spec, ConnectedOnce

-----------------------------------------------------------------------------
(* What is left behind when every thread has come to rest.                 *)

Raised(e) == \E i \in 1..Len(stateEvents) : stateEvents[i] = e

RestInv ==
    /\ sock = "closed" => handle = "null" \/ \E t \in Threads : pc[t] = "d_null"
    /\ pc[Opener] = "fault" => handle = "null"
    /\ pc[Opener] = "done" /\ sock = "open" => pc[IO] # "idle"
    /\ pc[IO] = "done" => sock = "closed"
    /\ (pc[Opener] = "raise" \/ Raised("connected")) /\ ~connected =>
          Raised("disconnected") \/ \E t \in Threads : pc[t] = "d_raise"

LEMMA RestInit == Init => RestInv
<1> SUFFICES ASSUME Init PROVE RestInv
    OBVIOUS
<1>1. ~Raised("connected") BY DEF Init, Raised
<1>2. pc[IO] = "idle" /\ pc[Opener] = "start" /\ sock = "none"
      BY LabelsOfKinds, ThreadsAssumption DEF Init
<1> QED BY <1>1, <1>2 DEF RestInv

\* An event that has been raised stays raised.
LEMMA RaisedAppend ==
    ASSUME TypeOK, NEW e \in {"connected", "disconnected"},
           stateEvents' = Append(stateEvents, e)
    PROVE  /\ \A d : Raised(d)' <=> Raised(d) \/ d = e
<1>1. /\ Len(stateEvents') = Len(stateEvents) + 1 /\ Len(stateEvents) \in Nat
      /\ \A i \in 1..Len(stateEvents) : stateEvents'[i] = stateEvents[i]
      /\ stateEvents'[Len(stateEvents) + 1] = e
      BY AppendProperties, LenProperties DEF TypeOK
<1>2. \A i : i \in 1..Len(stateEvents') <=> i \in 1..Len(stateEvents) \/ i = Len(stateEvents) + 1
      BY <1>1
<1> QED BY <1>1, <1>2 DEF Raised

LEMMA DisconnectRest ==
    ASSUME TypeOK, SessionInv, RestInv, NEW t \in Threads, Disconnect(t) PROVE RestInv'
<1>1. /\ pc[t] \in Disconnecting
      /\ pc'[t] \in Disconnecting \cup {"fault", AfterDisconnect(t)}
      /\ \A u \in Threads \ {t} : pc'[u] = pc[u]
      /\ connected' => connected
      BY DisconnectFrame
<1>2. pc \in [Threads -> UNION {Labels(u) : u \in Threads}] /\ Opener \in Threads /\ IO \in Threads
      BY LabelsOfKinds DEF TypeOK
<1>3. /\ AfterDisconnect(t) \in {"cleanup", "take", "done"}
      /\ t = Opener => AfterDisconnect(t) = "done"
      BY ThreadsAssumption DEF AfterDisconnect
<1>4. t = Opener => pc'[Opener] # "raise"
      BY <1>1, <1>3 DEF Disconnecting, Disposing
<1>5. UNCHANGED stateEvents => \A e : Raised(e)' = Raised(e)
      BY DEF Raised
<1> USE <1>2, <1>3, <1>4
<1>6. CASE DisconnectTest(t)
  <2>1. /\ UNCHANGED <<handle, sock, connected, stateEvents>>
        /\ pc[t] = "d_test" /\ pc'[t] \in {"d_state", "d_close"}
        BY <1>6 DEF DisconnectTest, Go
  <2> QED BY <1>1, <1>5, <2>1 DEF RestInv
<1>7. CASE DisposeClose(t)
  <2>1. /\ UNCHANGED <<handle, connected, stateEvents>> /\ sock' = "closed"
        /\ pc[t] = "d_close" /\ pc'[t] = "d_null"
        BY <1>7 DEF DisposeClose, Go
  <2> QED BY <1>1, <1>5, <2>1 DEF RestInv
<1>8. CASE DisposeFault(t)
  <2>1. /\ UNCHANGED <<handle, sock, connected, stateEvents>> /\ handle = "null"
        /\ pc[t] = "d_close" /\ pc'[t] = "fault"
        BY <1>8 DEF DisposeFault, Go
  <2> QED BY <1>1, <1>5, <2>1 DEF RestInv
<1>9. CASE DisposeNull(t)
  <2>1. /\ UNCHANGED <<sock, connected, stateEvents>> /\ handle' = "null"
        /\ pc[t] = "d_null" /\ pc'[t] = "d_state"
        BY <1>9 DEF DisposeNull, Go
  <2> QED BY <1>1, <1>5, <2>1 DEF RestInv
<1>10. CASE StateTest(t)
  <2>1. /\ UNCHANGED <<handle, sock, connected, stateEvents>> /\ sock = "closed"
        /\ pc[t] = "d_state" /\ pc'[t] \in {"d_set", AfterDisconnect(t)}
        BY <1>10 DEF StateTest, Go, connVars, SessionInv
  <2> QED BY <1>1, <1>5, <2>1 DEF RestInv
<1>11. CASE StateSet(t)
  <2>1. /\ UNCHANGED <<handle, sock, stateEvents>> /\ connected' = FALSE
        /\ pc[t] = "d_set" /\ pc'[t] = "d_raise"
        BY <1>11 DEF StateSet, Go
  <2> QED BY <1>1, <1>5, <2>1 DEF RestInv
<1>12. CASE StateRaise(t)
  <2>1. /\ UNCHANGED <<handle, sock, connected>> /\ sock = "closed"
        /\ pc[t] = "d_raise" /\ pc'[t] = AfterDisconnect(t)
        /\ stateEvents' = Append(stateEvents, "disconnected")
        BY <1>12 DEF StateRaise, Go, SessionInv
  <2>2. Raised("disconnected")' BY <2>1, RaisedAppend
  <2> QED BY <1>1, <2>1, <2>2 DEF RestInv
<1> QED BY <1>1, <1>6, <1>7, <1>8, <1>9, <1>10, <1>11, <1>12 DEF Disconnect

LEMMA OpenRest == ASSUME TypeOK, SessionInv, RestInv, Open PROVE RestInv'
<1>1. /\ pc \in [Threads -> UNION {Labels(u) : u \in Threads}] /\ Opener \in Threads /\ IO \in Threads
      /\ Opener # IO
      BY LabelsOfKinds, ThreadsAssumption DEF TypeOK
<1>2. UNCHANGED stateEvents => \A e : Raised(e)' = Raised(e)
      BY DEF Raised
<1>3. pc[Opener] \in {"start", "opened"} => ~Raised("connected")
      BY DEF SessionInv, Raised
<1> USE <1>1 DEF Go
<1>4. CASE AssignHandle
  <2>1. /\ sock = "none" /\ sock' = "open" /\ handle' = "socket"
        /\ UNCHANGED <<connected, stateEvents>>
        /\ pc[Opener] = "start" /\ pc' = [pc EXCEPT ![Opener] = "opened"]
        BY <1>4 DEF AssignHandle, SessionInv
  <2>2. pc[IO] = "idle"
        BY <2>1 DEF SessionInv, Quiet
  <2>3. pc'[IO] = "idle" /\ pc'[Opener] = "opened"
        BY <2>1, <2>2
  <2>4. ~Raised("connected")'
        BY <1>2, <1>3, <2>1
  <2> QED BY <2>1, <2>2, <2>3, <2>4 DEF RestInv
<1>5. CASE OpenFails
      BY <1>2, <1>3, <1>5 DEF OpenFails, RestInv, connVars
<1>6. CASE SetConnected
      BY <1>2, <1>6 DEF SetConnected, RestInv
<1>7. CASE RaiseConnected
  <2>1. \A d : Raised(d)' <=> Raised(d) \/ d = "connected"
        BY <1>7, RaisedAppend DEF RaiseConnected
  <2> QED BY <1>7, <2>1 DEF RaiseConnected, RestInv
<1>8. CASE FirstReceive
      BY <1>2, <1>8 DEF FirstReceive, GoAndStart, RestInv, connVars
<1>9. CASE FirstReceiveFails
      BY <1>2, <1>9 DEF FirstReceiveFails, RestInv, connVars
<1> QED BY <1>4, <1>5, <1>6, <1>7, <1>8, <1>9 DEF Open

\* Steps outside Disconnect that do not move the receive callback to "done".
LEMMA RestFrame ==
    ASSUME RestInv, SessionSame, pc'[IO] = "done" => sock = "closed",
           pc'[IO] = "idle" => pc[IO] = "idle"
    PROVE  RestInv'
<1>1. \A t \in Threads : \A l \in {"d_null", "d_raise"} : pc'[t] = l <=> pc[t] = l
      BY DEF SessionSame, Disconnecting, Disposing
<1>2. \A e : Raised(e)' = Raised(e)
      BY DEF SessionSame, connVars, Raised
<1> QED BY <1>1, <1>2 DEF RestInv, SessionSame, connVars

LEMMA RestStep == TypeOK /\ SessionInv /\ RestInv /\ [Next]_vars => RestInv'
<1> SUFFICES ASSUME TypeOK, SessionInv, RestInv, [Next]_vars PROVE RestInv'
    OBVIOUS
<1> USE LabelsOfKinds, ThreadsAssumption
<1>1. ASSUME NEW t \in Threads, Disconnect(t) PROVE RestInv'
      BY <1>1, DisconnectRest
<1>2. CASE Open
      BY <1>2, OpenRest
<1>3. ASSUME NEW s \in Senders, SendAnnounce(s) PROVE RestInv'
  <2>1. pc'[IO] = pc[IO] BY <1>3 DEF SendAnnounce, Go, TypeOK
  <2> QED BY <1>3, <2>1, SendSessionSame, RestFrame DEF RestInv
<1>4. ASSUME NEW s \in Senders, SendPost(s) PROVE RestInv'
  <2>1. pc'[IO] = pc[IO] BY <1>4 DEF SendPost, Go, GoAndStart, TypeOK
  <2> QED BY <1>4, <2>1, SendSessionSame, RestFrame DEF RestInv
<1>5. ASSUME NEW w \in SendPool, SendProcess(w) PROVE RestInv'
  <2>1. pc'[IO] = pc[IO]
        BY <1>5 DEF SendProcess, SendCheck, SendStop, SendDequeue, SendWrite, SendWriteFails,
                    SendRelease, SendClear, Go, TypeOK
  <2> QED BY <1>5, <2>1, SendSessionSame, RestFrame DEF RestInv
<1>6. CASE ReceiveData \/ ReceiveError \/ ReceiveCallback
  <2>1. pc[IO] # "idle" /\ pc'[IO] # "idle"
        BY <1>6 DEF ReceiveData, ReceiveError, ReceiveCallback, ReceiveAborted, ReceiveEnqueue,
                    ReceiveWake, ReceiveRearm, ReceiveRearmDisposed, ReceiveRearmFails, Go,
                    GoAndStart, TypeOK
  <2>2. sock # "none"
        BY <2>1 DEF SessionInv, Quiet
  <2>3. pc'[IO] = "done" => sock = "closed"
        BY <1>6, <2>2
        DEF ReceiveData, ReceiveError, ReceiveCallback, ReceiveAborted, ReceiveEnqueue,
            ReceiveWake, ReceiveRearm, ReceiveRearmDisposed, ReceiveRearmFails, Go,
            GoAndStart, TypeOK, SessionInv
  <2> QED BY <1>6, <2>1, <2>3, RecvSessionSame, RestFrame
<1>7. ASSUME NEW w \in RecvPool, RecvTake(w) \/ RecvProcess(w) PROVE RestInv'
  <2>1. pc'[IO] = pc[IO] BY <1>7 DEF RecvTake, RecvProcess, Go, TypeOK
  <2> QED BY <1>7, <2>1, RecvSessionSame, RestFrame DEF RestInv
<1>8. CASE UNCHANGED vars
      BY <1>8 DEF vars, connVars, RestInv, Raised
<1> QED BY <1>1, <1>2, <1>3, <1>4, <1>5, <1>6, <1>7, <1>8 DEF Next

LEMMA RestConsistent ==
    ASSUME TypeOK, SessionInv, RestInv, SendPcInv, SendWakeUp, RecvInv PROVE ConsistentAtRest
<1> SUFFICES ASSUME AtRest PROVE ConsistentAtRest
    BY DEF ConsistentAtRest
<1> USE LabelsOfKinds, ThreadsAssumption
<1>1. /\ pc[Opener] \in {"done", "fault"} /\ pc[IO] \in {"idle", "pending", "done"}
      /\ \A t \in Senders \cup SendPool \cup RecvPool : pc[t] = "idle"
      BY DEF AtRest
<1>2. \A t \in Threads : pc[t] \notin {"d_null", "d_state", "d_set", "d_raise"}
      BY <1>1 DEF Threads
<1>3. SendActive = {} /\ RecvActive = {}
      BY <1>1 DEF SendActive, RecvActive
<1>4. ASSUME connected
      PROVE  /\ handle = "socket" /\ sock = "open" /\ pc[IO] = "pending"
             /\ sendBuffers = << >> /\ readBuffers = << >>
  <2>1. sock = "open" /\ handle = "socket"
        BY <1>1, <1>2, <1>4 DEF SessionInv, TypeOK
  <2>2. pc[IO] = "pending"
        BY <1>1, <2>1 DEF RestInv
  <2> QED BY <1>3, <1>4, <2>1, <2>2 DEF SendWakeUp, RecvInv, RecvWakeUp
<1>5. ASSUME ~connected
      PROVE  handle = "null" /\ sock = "closed" /\ (Raised("connected") => Raised("disconnected"))
  <2>1. sock = "closed"
        BY <1>1, <1>5 DEF SessionInv, RestInv, TypeOK
  <2> QED BY <1>2, <1>5, <2>1 DEF RestInv
<1> QED BY <1>4, <1>5 DEF ConsistentAtRest, Raised

\* When no thread is inside the class its fields agree with each other, and
\* whoever was told that the client connected has been told that it disconnected.
THEOREM RestCorrect == Spec => []ConsistentAtRest
<1>1. TypeOK /\ SessionInv /\ RestInv /\ SendPcInv /\ SendDataInv /\ RecvInv => ConsistentAtRest
      BY RestConsistent DEF SendDataInv
<1> QED
    BY <1>1, TypeInit, TypeStep, SessionInit, SessionStep, RestInit, RestStep, SendPcInit,
       SendPcStep, SendDataInit, SendDataStep, RecvInit, RecvStep, PTL DEF Spec

-----------------------------------------------------------------------------
(* Each direction implements Pipe; its liveness is left to TLC.            *)

\* A packet number in the hands of a sender is one of the announced ones.
SenderInv ==
    /\ announced <= MaxSend
    /\ \A s \in Senders : pc[s] = "post" => hand[s] \in 1..MaxSend

SenderSame ==
    /\ UNCHANGED announced
    /\ \A s \in Senders : hand'[s] = hand[s] /\ pc'[s] = pc[s]

Broken == sock = "closed" \/ Crashed

LEMMA SenderInit == Init => SenderInv
<1> SUFFICES ASSUME Init PROVE SenderInv
    OBVIOUS
<1>1. \A s \in Senders : pc[s] = "idle"
      BY LabelsOfKinds, ThreadsAssumption DEF Init
<1>2. announced = 0 /\ MaxSend \in Nat
      BY BoundsAssumption DEF Init
<1> QED BY <1>1, <1>2 DEF SenderInv

LEMMA SenderFrame == ASSUME SenderInv, SenderSame PROVE SenderInv'
BY DEF SenderInv, SenderSame

\* Only Send itself moves a sender or numbers a packet.
LEMMA OthersSenderSame ==
    ASSUME TypeOK,
           \/ \E t \in Threads : Disconnect(t)
           \/ Open
           \/ \E w \in SendPool : SendProcess(w)
           \/ ReceiveData \/ ReceiveError \/ ReceiveCallback
           \/ \E w \in RecvPool : RecvTake(w) \/ RecvProcess(w)
    PROVE  SenderSame
<1> USE LabelsOfKinds, ThreadsAssumption DEF Go, GoAndStart, SenderSame, sendVars
<1>1. /\ pc \in [Threads -> UNION {Labels(t) : t \in Threads}] /\ hand \in [Threads -> Nat]
      /\ \A s \in Senders : pc[s] \in {"idle", "post"}
      BY DEF TypeOK, SenderLabels
<1>2. ASSUME NEW t \in Threads, Disconnect(t) PROVE SenderSame
  <2>1. t \notin Senders
        BY <1>1, <1>2 DEF Disconnect, DisconnectTest, DisposeClose, DisposeFault, DisposeNull,
                          StateTest, StateSet, StateRaise
  <2> QED BY <1>1, <1>2, <2>1
          DEF Disconnect, DisconnectTest, DisposeClose, DisposeFault, DisposeNull,
              StateTest, StateSet, StateRaise
<1>3. CASE Open
      BY <1>1, <1>3 DEF Open, AssignHandle, OpenFails, SetConnected, RaiseConnected,
                        FirstReceive, FirstReceiveFails
<1>4. ASSUME NEW w \in SendPool, SendProcess(w) PROVE SenderSame
      BY <1>1, <1>4 DEF SendProcess, SendCheck, SendStop, SendDequeue, SendWrite,
                        SendWriteFails, SendRelease, SendClear
<1>5. CASE ReceiveData \/ ReceiveError \/ ReceiveCallback
      BY <1>1, <1>5 DEF ReceiveData, ReceiveError, ReceiveCallback, ReceiveAborted,
                        ReceiveEnqueue, ReceiveWake, ReceiveRearm, ReceiveRearmDisposed,
                        ReceiveRearmFails
<1>6. ASSUME NEW w \in RecvPool, RecvTake(w) \/ RecvProcess(w) PROVE SenderSame
      BY <1>1, <1>6 DEF RecvTake, RecvProcess
<1> QED BY <1>2, <1>3, <1>4, <1>5, <1>6

LEMMA SenderStep == TypeOK /\ SenderInv /\ [Next]_vars => SenderInv'
<1> SUFFICES ASSUME TypeOK, SenderInv, [Next]_vars PROVE SenderInv'
    OBVIOUS
<1> USE LabelsOfKinds, ThreadsAssumption, BoundsAssumption
<1>1. ASSUME NEW s \in Senders, SendAnnounce(s) PROVE SenderInv'
  <2>1. /\ announced < MaxSend /\ announced' = announced + 1 /\ announced \in Nat
        /\ hand \in [Threads -> Nat] /\ hand' = [hand EXCEPT ![s] = announced + 1]
        /\ pc' = [pc EXCEPT ![s] = "post"]
        /\ pc \in [Threads -> UNION {Labels(t) : t \in Threads}] /\ s \in Threads
        BY <1>1 DEF SendAnnounce, Go, TypeOK
  <2>2. hand'[s] \in 1..MaxSend /\ announced' <= MaxSend
        BY <2>1
  <2>3. \A u \in Senders \ {s} : hand'[u] = hand[u] /\ pc'[u] = pc[u]
        BY <2>1
  <2> QED BY <2>2, <2>3 DEF SenderInv
<1>2. ASSUME NEW s \in Senders, SendPost(s) PROVE SenderInv'
      BY <1>2 DEF SendPost, Go, GoAndStart, SenderInv, TypeOK
<1>3. CASE UNCHANGED vars
      BY <1>3, SenderFrame DEF vars, sendVars, SenderSame
<1> QED BY <1>1, <1>2, <1>3, OthersSenderSame, SenderFrame DEF Next

\* A broken pipe stays broken.
LEMMA BrokenStays ==
    TypeOK /\ SessionInv /\ [Next]_vars => (Broken => Broken') /\ (Crashed => Crashed')
<1> SUFFICES ASSUME TypeOK, SessionInv, [Next]_vars
             PROVE  (Broken => Broken') /\ (Crashed => Crashed')
    OBVIOUS
<1> USE DEF Broken, Crashed
<1>1. ASSUME NEW t \in Threads, Disconnect(t) PROVE (Broken => Broken') /\ (Crashed => Crashed')
      BY <1>1 DEF Disconnect, DisconnectTest, DisposeClose, DisposeFault, DisposeNull,
                  StateTest, StateSet, StateRaise, connVars
<1>2. CASE Open
      BY <1>2 DEF Open, AssignHandle, OpenFails, SetConnected, RaiseConnected, FirstReceive,
                  FirstReceiveFails, connVars, SessionInv, Go
<1>3. ASSUME UNCHANGED connVars PROVE (Broken => Broken') /\ (Crashed => Crashed')
      BY <1>3 DEF connVars
<1> QED BY <1>1, <1>2, <1>3
        DEF Next, SendAnnounce, SendPost, SendProcess, SendCheck, SendStop, SendDequeue,
            SendWrite, SendWriteFails, SendRelease, SendClear, ReceiveData, ReceiveError,
            ReceiveCallback, ReceiveAborted, ReceiveEnqueue, ReceiveWake, ReceiveRearm,
            ReceiveRearmDisposed, ReceiveRearmFails, RecvTake, RecvProcess, vars

\* A step that moves no packet in or out of the pipe breaks it or does nothing.
LEMMA SendPipeStutter ==
    ASSUME Broken => Broken', UNCHANGED <<accepted, sentOut>>
    PROVE  [SendPipe!Next]_SendPipe!vars
<1>1. CASE Broken'
      BY <1>1 DEF SendPipe!Next, SendPipe!Break, Broken, Crashed
<1>2. CASE ~Broken'
      BY <1>2 DEF SendPipe!vars, Broken, Crashed
<1> QED BY <1>1, <1>2

LEMMA SendPipeStep ==
    ASSUME TypeOK, SessionInv, SendDataInv, SenderInv, [Next]_vars
    PROVE  [SendPipe!Next]_SendPipe!vars
<1> USE LabelsOfKinds, ThreadsAssumption
<1>1. ASSUME NEW s \in Senders, SendPost(s) PROVE [SendPipe!Next]_SendPipe!vars
  <2>1. pc[s] = "post" /\ UNCHANGED <<sock, faulted, sentOut>>
        /\ accepted' = Append(accepted, hand[s])
        BY <1>1 DEF SendPost, Go, GoAndStart, connVars
  <2>2. hand[s] \in 1..MaxSend
        BY <2>1 DEF SenderInv
  <2>3. SendPipe!Take(hand[s])
        BY <2>1 DEF SendPipe!Take, Crashed
  <2> QED BY <2>2, <2>3 DEF SendPipe!Next
<1>2. ASSUME NEW w \in SendPool, SendWrite(w) PROVE [SendPipe!Next]_SendPipe!vars
  <2>1. /\ pc[w] = "write" /\ sock = "open" /\ ~Crashed
        /\ UNCHANGED <<sock, faulted, accepted>>
        /\ sentOut' = Append(sentOut, hand[w])
        BY <1>2 DEF SendWrite, Go, connVars
  <2>2. hand[w] = accepted[Len(sentOut) + 1] /\ Len(sentOut) < Len(accepted)
        BY <2>1, Lengths DEF SendDataInv, Rest
  <2>3. SendPipe!Give
        BY <2>1, <2>2 DEF SendPipe!Give, Crashed
  <2> QED BY <2>3 DEF SendPipe!Next
<1>3. ASSUME UNCHANGED <<accepted, sentOut>> PROVE [SendPipe!Next]_SendPipe!vars
  <2>1. Broken => Broken'
        BY BrokenStays
  <2> QED BY <1>3, <2>1, SendPipeStutter
<1>4. \/ \E s \in Senders : SendPost(s)
      \/ \E w \in SendPool : SendWrite(w)
      \/ UNCHANGED <<accepted, sentOut>>
      BY DEF Next, Disconnect, DisconnectTest, DisposeClose, DisposeFault, DisposeNull,
             StateTest, StateSet, StateRaise, Open, AssignHandle, OpenFails, SetConnected,
             RaiseConnected, FirstReceive, FirstReceiveFails, SendAnnounce, SendProcess,
             SendCheck, SendStop, SendDequeue, SendWriteFails, SendRelease, SendClear,
             ReceiveData, ReceiveError, ReceiveCallback, ReceiveAborted, ReceiveEnqueue,
             ReceiveWake, ReceiveRearm, ReceiveRearmDisposed, ReceiveRearmFails, RecvTake,
             RecvProcess, sendVars, vars
<1> QED BY <1>1, <1>2, <1>3, <1>4

\* Sending implements the safety of Pipe: what Send accepted reaches the socket
\* in order, without a gap or a repeat, until the socket is closed.
THEOREM SendRefinesPipe == Spec => SendPipe!Safety
<1>1. Init => SendPipe!Init
      BY DEF Init, SendPipe!Init, Crashed
<1>2. TypeOK /\ SessionInv /\ SendDataInv /\ SenderInv /\ [Next]_vars
         => [SendPipe!Next]_SendPipe!vars
      BY SendPipeStep
<1> QED
    BY <1>1, <1>2, TypeInit, TypeStep, SessionInit, SessionStep, SendPcInit, SendPcStep,
       SendDataInit, SendDataStep, SenderInit, SenderStep, PTL DEF Spec, SendPipe!Safety

\* [i \in 1..n |-> i] grows at its end.
LEMMA CountingSeq ==
    ASSUME NEW n \in Nat
    PROVE  /\ [i \in 1..n |-> i] \in Seq(Nat) /\ Len([i \in 1..n |-> i]) = n
           /\ [i \in 1..(n + 1) |-> i] = Append([i \in 1..n |-> i], n + 1)
<1> DEFINE c == [i \in 1..n |-> i]
           d == [i \in 1..(n + 1) |-> i]
<1>1. c \in Seq(Nat) /\ Len(c) = n /\ d \in Seq(Nat) /\ Len(d) = n + 1
      BY SeqDef, LenProperties
<1> HIDE DEF c, d
<1>2. /\ Append(c, n + 1) \in Seq(Nat) /\ Len(Append(c, n + 1)) = n + 1
      /\ Append(c, n + 1)[n + 1] = n + 1
      /\ \A i \in 1..n : Append(c, n + 1)[i] = c[i]
      BY <1>1, AppendProperties
<1>3. \A i \in 1..(n + 1) : d[i] = Append(c, n + 1)[i]
  <2>1. \A i \in 1..n : c[i] = i BY DEF c
  <2>2. \A i \in 1..(n + 1) : d[i] = i BY DEF d
  <2> QED BY <1>2, <2>1, <2>2
<1>4. d = Append(c, n + 1)
      BY <1>1, <1>2, <1>3, SeqEqual
<1> QED BY <1>1, <1>4 DEF c, d

\* No more chunks arrive than the bound allows.
ArrivedInv == arrived <= MaxRecv

LEMMA ArrivedStep == TypeOK /\ ArrivedInv /\ [Next]_vars => ArrivedInv'
<1> SUFFICES ASSUME TypeOK, ArrivedInv, [Next]_vars PROVE ArrivedInv'
    OBVIOUS
<1>1. CASE ReceiveData
      BY <1>1, BoundsAssumption DEF ReceiveData, ArrivedInv, TypeOK
<1>2. ReceiveData \/ UNCHANGED arrived
      BY DEF Next, Disconnect, DisconnectTest, DisposeClose, DisposeFault, DisposeNull,
             StateTest, StateSet, StateRaise, Open, AssignHandle, OpenFails, SetConnected,
             RaiseConnected, FirstReceive, FirstReceiveFails, SendAnnounce, SendPost,
             SendProcess, SendCheck, SendStop, SendDequeue, SendWrite, SendWriteFails,
             SendRelease, SendClear, ReceiveError, ReceiveCallback, ReceiveAborted,
             ReceiveEnqueue, ReceiveWake, ReceiveRearm, ReceiveRearmDisposed,
             ReceiveRearmFails, RecvTake, RecvProcess, recvVars, vars
<1> QED BY <1>1, <1>2 DEF ArrivedInv

LEMMA RecvPipeStutter ==
    ASSUME Crashed => Crashed', UNCHANGED <<arrived, processed>>
    PROVE  [RecvPipe!Next]_RecvPipe!vars
<1>1. CASE Crashed'
      BY <1>1 DEF RecvPipe!Next, RecvPipe!Break, Crashed
<1>2. CASE ~Crashed'
      BY <1>2 DEF RecvPipe!vars, Crashed
<1> QED BY <1>1, <1>2

LEMMA RecvPipeStep ==
    ASSUME TypeOK, SessionInv, RecvInv, ArrivedInv, [Next]_vars
    PROVE  [RecvPipe!Next]_RecvPipe!vars
<1> USE LabelsOfKinds, ThreadsAssumption
<1>1. CASE ReceiveData
  <2>1. /\ arrived < MaxRecv /\ arrived' = arrived + 1 /\ arrived \in Nat
        /\ UNCHANGED <<processed, faulted>>
        BY <1>1 DEF ReceiveData, connVars, TypeOK
  <2>2. PICK m \in 1..MaxRecv : m = arrived + 1
        BY <2>1, BoundsAssumption
  <2>3. [i \in 1..arrived' |-> i] = Append([i \in 1..arrived |-> i], arrived + 1)
        BY <2>1, CountingSeq
  <2>4. RecvPipe!Take(m)
        BY <2>1, <2>2, <2>3 DEF RecvPipe!Take, Crashed
  <2> QED BY <2>4 DEF RecvPipe!Next
<1>2. ASSUME NEW w \in RecvPool, RecvProcess(w) PROVE [RecvPipe!Next]_RecvPipe!vars
  <2>1. /\ pc[w] = "process" /\ ~Crashed /\ UNCHANGED <<arrived, faulted>>
        /\ processed' = Append(processed, hand[w])
        BY <1>2 DEF RecvProcess, Go, connVars
  <2>2. hand[w] = Len(processed) + 1 /\ InHand(RecvPool) = 1
        BY <2>1, Lengths DEF RecvInv, InHand, None
  <2>3. InHand({IO}) \in Nat
        BY InHandNat
  <2>4. Len(processed) < arrived
        BY <2>2, <2>3, Lengths DEF RecvInv
  <2>5. /\ Len([i \in 1..arrived |-> i]) = arrived
        /\ [i \in 1..arrived |-> i][Len(processed) + 1] = hand[w]
        BY <2>2, <2>4, Lengths, CountingSeq
  <2>6. RecvPipe!Give
        BY <2>1, <2>4, <2>5 DEF RecvPipe!Give, Crashed
  <2> QED BY <2>6 DEF RecvPipe!Next
<1>3. ASSUME UNCHANGED <<arrived, processed>> PROVE [RecvPipe!Next]_RecvPipe!vars
  <2>1. Crashed => Crashed'
        BY BrokenStays
  <2> QED BY <1>3, <2>1, RecvPipeStutter
<1>4. \/ ReceiveData
      \/ \E w \in RecvPool : RecvProcess(w)
      \/ UNCHANGED <<arrived, processed>>
      BY DEF Next, Disconnect, DisconnectTest, DisposeClose, DisposeFault, DisposeNull,
             StateTest, StateSet, StateRaise, Open, AssignHandle, OpenFails, SetConnected,
             RaiseConnected, FirstReceive, FirstReceiveFails, SendAnnounce, SendPost,
             SendProcess, SendCheck, SendStop, SendDequeue, SendWrite, SendWriteFails,
             SendRelease, SendClear, ReceiveError, ReceiveCallback, ReceiveAborted,
             ReceiveEnqueue, ReceiveWake, ReceiveRearm, ReceiveRearmDisposed,
             ReceiveRearmFails, RecvTake, recvVars, vars
<1> QED BY <1>1, <1>2, <1>3, <1>4

\* Receiving implements the safety of Pipe: what arrives is given to the subclass
\* in order, each chunk once, whatever happens to the connection meanwhile.
THEOREM RecvRefinesPipe == Spec => RecvPipe!Safety
<1>1. Init => RecvPipe!Init
  <2> SUFFICES ASSUME Init PROVE RecvPipe!Init
      OBVIOUS
  <2>1. arrived = 0 /\ processed = << >> /\ Crashed = FALSE
        BY DEF Init, Crashed
  <2>2. [i \in 1..0 |-> i] = << >>
        BY CountingSeq, EmptySeq
  <2> QED BY <2>1, <2>2 DEF RecvPipe!Init, Crashed
<1>2. Init => ArrivedInv
      BY BoundsAssumption DEF Init, ArrivedInv
<1>3. TypeOK /\ SessionInv /\ RecvInv /\ ArrivedInv /\ [Next]_vars
         => [RecvPipe!Next]_RecvPipe!vars
      BY RecvPipeStep
<1> QED
    BY <1>1, <1>2, <1>3, TypeInit, TypeStep, SessionInit, SessionStep, RecvInit, RecvStep,
       ArrivedStep, PTL DEF Spec, RecvPipe!Safety

=============================================================================
