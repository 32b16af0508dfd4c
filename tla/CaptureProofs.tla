---------------------------- MODULE CaptureProofs ----------------------------
(***************************************************************************)
(* Theorems about Capture, for every set of sessions and any number of     *)
(* packets, windows and clicks.                                            *)
(***************************************************************************)
EXTENDS Capture, SequenceTheorems, TLAPS

\* Window w's handler is still to be called for the packet of s.
ToCall(w, s) == \E i \in DOMAIN calls[s] : calls[s][i] = w

Listed(w, s, n) == \E i \in DOMAIN list[w] : list[w][i].session = s /\ list[w][i].number = n

\* The handlers of a delegate are those of the windows, in the order they were opened.
HandlersInv ==
    /\ \A x \in Sources : \A i \in DOMAIN handlers[x] : handlers[x][i] = i
    /\ Len(handlers["client"]) = opened
    /\ Len(handlers["server"]) = IF constructing THEN opened - 1 ELSE opened

\* A callback calls each handler once, and waits for the first of those left.
CallsInv ==
    \A s \in Sessions :
        /\ \A i, j \in DOMAIN calls[s] : i < j => calls[s][i] < calls[s][j]
        /\ pc[s] = "wait" => calls[s] # << >>
        /\ pc[s] = "idle" => calls[s] = << >>

\* One packet at a time is between being received and being passed on.
CountInv ==
    \A s \in Sessions : received[s] = passed[s] + (IF pc[s] = "idle" THEN 0 ELSE 1)

\* An operation is that of a callback which waits for it, one for each.
DispatchInv ==
    /\ \A i \in DOMAIN dispatcher :
          LET operation == dispatcher[i]
              s == operation.session
          IN  /\ pc[s] = "wait"
              /\ operation.window = Head(calls[s])
              /\ operation.number = received[s]
              /\ operation.seen = seen[s]
    /\ \A i, j \in DOMAIN dispatcher :
          i < j => dispatcher[i].session # dispatcher[j].session

HistoryInv ==
    /\ \A w \in Windows, s \in Sessions : from[w][s] <= received[s] /\ gone[w][s] <= passed[s]
    /\ \A s, t \in Sessions : seen[s][t] <= passed[t]

\* What is listed has been received, after what had been passed on before; and the packet
\* of a callback that has still to call a handler is not in the list of that window.
ListInv ==
    \A w \in Windows : \A i \in DOMAIN list[w] :
        /\ list[w][i].number <= received[list[w][i].session]
        /\ \A t \in Sessions : list[w][i].seen[t] <= passed[t]
        /\ ToCall(w, list[w][i].session) => list[w][i].number < received[list[w][i].session]

\* A packet on its way has been listed or will yet be offered.
PendingInv ==
    \A w \in Windows, s \in Sessions :
        Subscribed(w, s) /\ capturing[w] /\ pc[s] # "idle" /\ from[w][s] < received[s] =>
            ToCall(w, s) \/ Listed(w, s, received[s])

IInv ==
    /\ TypeOK /\ HandlersInv /\ CallsInv /\ CountInv /\ DispatchInv /\ HistoryInv
    /\ ListInv /\ ListedInOrder /\ ListIsCausal
    /\ PendingInv /\ ListedWhenPassed

-----------------------------------------------------------------------------
LEMMA AppendFacts ==
    ASSUME NEW S, NEW q \in Seq(S), NEW e \in S
    PROVE  /\ Append(q, e) \in Seq(S)
           /\ DOMAIN Append(q, e) = 1..Len(q) + 1 /\ DOMAIN q = 1..Len(q) /\ Len(q) \in Nat
           /\ \A i \in DOMAIN q : Append(q, e)[i] = q[i]
           /\ Append(q, e)[Len(q) + 1] = e
    BY AppendProperties, LenProperties

LEMMA TailFacts ==
    ASSUME NEW S, NEW q \in Seq(S), q # << >>
    PROVE  /\ Head(q) \in S /\ Tail(q) \in Seq(S)
           /\ 1 \in DOMAIN q /\ Head(q) = q[1]
           /\ DOMAIN q = 1..Len(q) /\ DOMAIN Tail(q) = 1..Len(q) - 1 /\ Len(q) \in Nat
           /\ \A i \in DOMAIN Tail(q) : Tail(q)[i] = q[i + 1]
  <1>1. Len(q) \in Nat /\ Len(q) # 0 /\ DOMAIN q = 1..Len(q)
        BY LenProperties, EmptySeq
  <1>2. Head(q) = q[1]
        BY <1>1
  <1> QED BY <1>1, <1>2, HeadTailProperties, LenProperties

LEMMA InitIInv == Init => IInv
<1> SUFFICES ASSUME Init PROVE IInv
    OBVIOUS
<1> USE CaptureAssumption
<1>1. /\ \A s \in Sessions : calls[s] = << >> /\ DOMAIN calls[s] = {}
      /\ \A x \in Sources : handlers[x] = << >> /\ DOMAIN handlers[x] = {} /\ Len(handlers[x]) = 0
      /\ \A w \in Windows : list[w] = << >> /\ DOMAIN list[w] = {}
      /\ DOMAIN dispatcher = {}
      BY DEF Init
<1>2. TypeOK
  <2>1. << >> \in Seq(Windows) /\ << >> \in Seq(Listing) /\ << >> \in Seq(Operation)
        BY EmptySeq
  <2>2. 0 \in 0..MaxPackets /\ 0 \in 0..MaxWindows /\ 0 \in 0..MaxClicks
        OBVIOUS
  <2> QED BY <2>1, <2>2 DEF Init, TypeOK
<1>3. HandlersInv /\ CallsInv /\ CountInv /\ DispatchInv /\ HistoryInv
      BY <1>1 DEF Init, HandlersInv, CallsInv, CountInv, DispatchInv, HistoryInv, Sources
<1>4. ListInv /\ ListedInOrder /\ ListIsCausal
      BY <1>1 DEF ListInv, ListedInOrder, ListIsCausal
<1>5. PendingInv /\ ListedWhenPassed
      BY DEF Init, PendingInv, ListedWhenPassed, Subscribed, Windows
<1> QED BY <1>2, <1>3, <1>4, <1>5 DEF IInv

-----------------------------------------------------------------------------
(* The callbacks.                                                          *)

LEMMA SourceType == \A s : Source(s) \in Sources
BY DEF Source, Sources

\* A window with the handler is in the delegate.
LEMMA DelegateHas ==
    ASSUME TypeOK, HandlersInv, NEW w \in Windows, NEW s \in Sessions, Subscribed(w, s)
    PROVE  \E i \in DOMAIN handlers[Source(s)] : handlers[Source(s)][i] = w
<1>1. handlers[Source(s)] \in Seq(Windows) /\ Source(s) \in Sources
      BY SourceType DEF TypeOK
<1>2. DOMAIN handlers[Source(s)] = 1..Len(handlers[Source(s)])
      BY <1>1, LenProperties
<1>3. w \in 1..Len(handlers[Source(s)])
      BY DEF Subscribed, HandlersInv, TypeOK, Windows, Source
<1> QED BY <1>1, <1>2, <1>3 DEF HandlersInv

LEMMA ReceiveIInv ==
    ASSUME IInv, NEW s \in Sessions, Receive(s)
    PROVE  IInv'
<1> USE CaptureAssumption DEF IInv, Receive
<1>1. handlers[Source(s)] \in Seq(Windows)
      BY SourceType DEF TypeOK
<1>2. TypeOK'
  <2>1. /\ pc' \in [Sessions -> {"idle", "call", "wait"}]
        /\ calls' \in [Sessions -> Seq(Windows)]
        /\ received' \in [Sessions -> 0..MaxPackets]
        /\ seen' \in [Sessions -> [Sessions -> 0..MaxPackets]]
        BY <1>1 DEF TypeOK
  <2> QED BY <2>1 DEF TypeOK, windows, history
<1>3. HandlersInv'
      BY DEF HandlersInv, windows
<1>4. CallsInv'
  <2>1. \A i, j \in DOMAIN handlers[Source(s)] :
           i < j => handlers[Source(s)][i] < handlers[Source(s)][j]
        BY SourceType DEF HandlersInv
  <2> QED BY <2>1 DEF CallsInv, TypeOK
<1>5. CountInv'
      BY DEF CountInv, TypeOK
<1>6. DispatchInv'
  <2>1. \A i \in DOMAIN dispatcher : dispatcher[i].session # s /\ dispatcher[i].session \in Sessions
    <3>1. \A i \in DOMAIN dispatcher : dispatcher[i] \in Operation
          BY ElementOfSeq, LenProperties DEF TypeOK
    <3> QED BY <3>1 DEF DispatchInv, Operation
  <2> QED BY <2>1 DEF DispatchInv, TypeOK
<1>7. HistoryInv'
  <2>1. \A u \in Sessions : received[u] <= received'[u]
        BY DEF TypeOK
  <2>2. \A u, t \in Sessions : seen'[u][t] <= passed[t]
        BY DEF TypeOK, HistoryInv
  <2>3. \A w \in Windows, u \in Sessions : from[w][u] <= received'[u]
    <3>1. \A w \in Windows, u \in Sessions : from[w][u] \in Nat
          BY DEF TypeOK
    <3> QED BY <2>1, <3>1, SMTT(20) DEF HistoryInv, TypeOK
  <2> QED BY <2>2, <2>3 DEF HistoryInv, history
<1>8. ListInv'
  <2> SUFFICES ASSUME NEW w \in Windows, NEW i \in DOMAIN list[w]
               PROVE  /\ list[w][i].number <= received'[list[w][i].session]
                      /\ \A t \in Sessions : list[w][i].seen[t] <= passed'[t]
                      /\ ToCall(w, list[w][i].session)' =>
                            list[w][i].number < received'[list[w][i].session]
      BY DEF ListInv
  <2>1. list[w][i] \in Listing
        BY ElementOfSeq, LenProperties DEF TypeOK
  <2>2. list[w][i].session \in Sessions /\ list[w][i].number \in Nat
        BY <2>1 DEF Listing
  <2>3. list[w][i].number <= received[list[w][i].session]
        BY DEF ListInv
  <2>4. CASE list[w][i].session = s
        BY <2>2, <2>3, <2>4 DEF ListInv, TypeOK
  <2>5. CASE list[w][i].session # s
    <3>1. ToCall(w, list[w][i].session)' => ToCall(w, list[w][i].session)
          BY <2>2, <2>5 DEF ToCall, TypeOK
    <3> QED BY <2>2, <2>5, <3>1 DEF ListInv, TypeOK
  <2> QED BY <2>4, <2>5
<1>9. ListedInOrder' /\ ListIsCausal'
      BY DEF ListedInOrder, ListIsCausal, history
<1>10. PendingInv'
  <2> SUFFICES ASSUME NEW w \in Windows, NEW u \in Sessions,
                      Subscribed(w, u), capturing[w], pc'[u] # "idle", from[w][u] < received'[u]
               PROVE  ToCall(w, u)' \/ Listed(w, u, received[u])'
      BY DEF PendingInv, Subscribed, Source, windows, history
  <2>1. CASE u = s
    <3>1. calls'[s] = handlers[Source(s)]
          BY DEF TypeOK
    <3> QED BY <2>1, <3>1, DelegateHas DEF ToCall
  <2>2. CASE u # s
    <3>1. pc'[u] = pc[u] /\ received'[u] = received[u] /\ calls'[u] = calls[u]
          BY <2>2 DEF TypeOK
    <3>2. ToCall(w, u) \/ Listed(w, u, received[u])
          BY <3>1 DEF PendingInv
    <3> QED BY <3>1, <3>2 DEF ToCall, Listed
  <2> QED BY <2>1, <2>2
<1>11. ListedWhenPassed'
      BY DEF ListedWhenPassed, Subscribed, windows, history
<1> QED BY <1>2, <1>3, <1>4, <1>5, <1>6, <1>7, <1>8, <1>9, <1>10, <1>11

\* After a handler has been called, the rest is as before without it.
LEMMA TailCalls ==
    ASSUME TypeOK, CallsInv, NEW s \in Sessions, calls[s] # << >>,
           calls' = [calls EXCEPT ![s] = Tail(@)]
    PROVE  /\ calls' \in [Sessions -> Seq(Windows)]
           /\ Head(calls[s]) \in Windows
           /\ \A u \in Sessions : \A i, j \in DOMAIN calls'[u] :
                 i < j => calls'[u][i] < calls'[u][j]
           /\ \A w : \A u \in Sessions : ToCall(w, u)' => ToCall(w, u)
           /\ \A w : ToCall(w, s)' <=> ToCall(w, s) /\ w # Head(calls[s])
           /\ \A u \in Sessions : u # s => calls'[u] = calls[u]
<1>1. calls[s] \in Seq(Windows) /\ calls'[s] = Tail(calls[s])
      BY DEF TypeOK
<1>2. /\ Head(calls[s]) \in Windows /\ Tail(calls[s]) \in Seq(Windows)
      /\ 1 \in DOMAIN calls[s] /\ Head(calls[s]) = calls[s][1]
      /\ DOMAIN calls[s] = 1..Len(calls[s]) /\ DOMAIN calls'[s] = 1..Len(calls[s]) - 1
      /\ Len(calls[s]) \in Nat
      /\ \A i \in DOMAIN calls'[s] : calls'[s][i] = calls[s][i + 1]
  <2> DEFINE q == calls[s]
  <2>1. q \in Seq(Windows) /\ q # << >> /\ calls'[s] = Tail(q)
        BY <1>1
  <2> HIDE DEF q
  <2>2. /\ Head(q) \in Windows /\ Tail(q) \in Seq(Windows)
        /\ 1 \in DOMAIN q /\ Head(q) = q[1]
        /\ DOMAIN q = 1..Len(q) /\ DOMAIN Tail(q) = 1..Len(q) - 1 /\ Len(q) \in Nat
        /\ \A i \in DOMAIN Tail(q) : Tail(q)[i] = q[i + 1]
        BY <2>1, TailFacts
  <2> QED BY <2>1, <2>2 DEF q
<1>3. \A u \in Sessions : u # s => calls'[u] = calls[u]
      BY DEF TypeOK
<1>4. ASSUME NEW i \in DOMAIN calls'[s], NEW j \in DOMAIN calls'[s], i < j
      PROVE  calls'[s][i] < calls'[s][j]
  <2>1. i + 1 \in DOMAIN calls[s] /\ j + 1 \in DOMAIN calls[s] /\ i + 1 < j + 1
        BY <1>2, <1>4
  <2>2. calls[s][i + 1] < calls[s][j + 1]
        BY <2>1 DEF CallsInv
  <2> QED BY <1>2, <2>2
<1>5. ASSUME NEW w
      PROVE  ToCall(w, s)' <=> ToCall(w, s) /\ w # Head(calls[s])
  <2>1. ASSUME NEW i \in DOMAIN calls'[s], calls'[s][i] = w
        PROVE  ToCall(w, s) /\ w # Head(calls[s])
    <3>1. i + 1 \in DOMAIN calls[s] /\ 1 < i + 1 /\ calls[s][i + 1] = w
          BY <1>2, <2>1
    <3>2. calls[s][1] < calls[s][i + 1]
          BY <1>2, <3>1 DEF CallsInv
    <3>3. w \in Nat /\ Head(calls[s]) \in Nat
      <4>1. calls[s][i + 1] \in Windows
            BY <1>1, <1>2, <3>1, ElementOfSeq
      <4> QED BY <1>2, <3>1, <4>1 DEF Windows
    <3> QED BY <1>2, <3>1, <3>2, <3>3 DEF ToCall
  <2>2. ASSUME NEW i \in DOMAIN calls[s], calls[s][i] = w, w # Head(calls[s])
        PROVE  ToCall(w, s)'
    <3>1. i - 1 \in DOMAIN calls'[s] /\ (i - 1) + 1 = i
          BY <1>2, <2>2
    <3>2. calls'[s][i - 1] = w
          BY <1>2, <2>2, <3>1
    <3> QED BY <3>1, <3>2 DEF ToCall
  <2> QED BY <2>1, <2>2 DEF ToCall
<1>6. calls' \in [Sessions -> Seq(Windows)]
      BY <1>2, <1>1 DEF TypeOK
<1>7. \A w : \A u \in Sessions : ToCall(w, u)' => ToCall(w, u)
      BY <1>3, <1>5 DEF ToCall
<1> QED BY <1>2, <1>3, <1>4, <1>5, <1>6, <1>7 DEF CallsInv

LEMMA ListingTypes ==
    ASSUME TypeOK, NEW w \in Windows, NEW i \in DOMAIN list[w]
    PROVE  /\ list[w][i].session \in Sessions /\ list[w][i].number \in 1..MaxPackets
           /\ list[w][i].seen \in [Sessions -> 0..MaxPackets]
<1>1. list[w][i] \in Listing
      BY ElementOfSeq, LenProperties DEF TypeOK
<1> QED BY <1>1 DEF Listing

LEMMA OperationTypes ==
    ASSUME TypeOK, NEW i \in DOMAIN dispatcher
    PROVE  /\ dispatcher[i].session \in Sessions /\ dispatcher[i].window \in Windows
           /\ dispatcher[i].number \in 1..MaxPackets
           /\ dispatcher[i].seen \in [Sessions -> 0..MaxPackets]
<1>1. dispatcher[i] \in Operation
      BY ElementOfSeq, LenProperties DEF TypeOK
<1> QED BY <1>1 DEF Operation

LEMMA IgnoreIInv ==
    ASSUME IInv, NEW s \in Sessions, Ignore(s)
    PROVE  IInv'
<1> USE CaptureAssumption DEF IInv, Ignore
<1>1. TypeOK'
      BY TailCalls DEF TypeOK, windows, history
<1>2. HandlersInv' /\ CountInv' /\ HistoryInv'
      BY DEF HandlersInv, CountInv, HistoryInv, windows, history
<1>3. CallsInv'
      BY TailCalls DEF CallsInv
<1>4. DispatchInv'
  <2>1. \A i \in DOMAIN dispatcher : calls'[dispatcher[i].session] = calls[dispatcher[i].session]
    <3>1. \A i \in DOMAIN dispatcher : dispatcher[i].session # s
          BY DEF DispatchInv
    <3> QED BY <3>1, OperationTypes, TailCalls
  <2> QED BY <2>1 DEF DispatchInv
<1>5. ListInv'
  <2>1. \A w : \A u \in Sessions : ToCall(w, u)' => ToCall(w, u)
        BY TailCalls
  <2>2. \A w \in Windows : \A i \in DOMAIN list[w] : list[w][i].session \in Sessions
        BY ListingTypes
  <2> QED BY <2>1, <2>2 DEF ListInv
<1>6. ListedInOrder' /\ ListIsCausal' /\ ListedWhenPassed'
      BY DEF ListedInOrder, ListIsCausal, ListedWhenPassed, Subscribed, windows, history
<1>7. PendingInv'
  <2> SUFFICES ASSUME NEW w \in Windows, NEW u \in Sessions,
                      Subscribed(w, u), capturing[w], pc[u] # "idle", from[w][u] < received[u]
               PROVE  ToCall(w, u)' \/ Listed(w, u, received[u])
      BY DEF PendingInv, Listed, Subscribed, Source, windows, history
  <2>1. ToCall(w, u) \/ Listed(w, u, received[u])
        BY DEF PendingInv
  <2>2. ToCall(w, u) => ToCall(w, u)'
    <3>1. CASE u = s
          BY <3>1, TailCalls
    <3>2. CASE u # s
          BY <3>2, TailCalls DEF ToCall
    <3> QED BY <3>1, <3>2
  <2> QED BY <2>1, <2>2
<1> QED BY <1>1, <1>2, <1>3, <1>4, <1>5, <1>6, <1>7

LEMMA InvokeIInv ==
    ASSUME IInv, NEW s \in Sessions, Invoke(s)
    PROVE  IInv'
<1> USE CaptureAssumption DEF IInv, Invoke
<1> DEFINE new == [session |-> s, window |-> Head(calls[s]),
                   number |-> received[s], seen |-> seen[s]]
<1>1. new \in Operation
  <2>1. calls[s] \in Seq(Windows) /\ Head(calls[s]) \in Windows
        BY TailFacts DEF TypeOK
  <2>2. received[s] \in 1..MaxPackets
    <3>1. received[s] = passed[s] + 1 /\ passed[s] \in Nat /\ received[s] \in 0..MaxPackets
          BY DEF CountInv, TypeOK
    <3> QED BY <3>1
  <2> QED BY <2>1, <2>2 DEF Operation, TypeOK
<1>2. /\ dispatcher' \in Seq(Operation)
      /\ DOMAIN dispatcher' = 1..Len(dispatcher) + 1 /\ DOMAIN dispatcher = 1..Len(dispatcher)
      /\ Len(dispatcher) \in Nat
      /\ \A i \in DOMAIN dispatcher : dispatcher'[i] = dispatcher[i]
      /\ dispatcher'[Len(dispatcher) + 1] = new
  <2>1. dispatcher \in Seq(Operation) /\ dispatcher' = Append(dispatcher, new)
        BY DEF TypeOK
  <2> QED BY <1>1, <2>1, AppendFacts
<1>3. TypeOK'
      BY <1>2 DEF TypeOK, windows, history
<1>4. HandlersInv' /\ CallsInv' /\ CountInv' /\ HistoryInv'
      BY DEF HandlersInv, CallsInv, CountInv, HistoryInv, TypeOK, windows, history
<1>5. DispatchInv'
  <2>1. \A i \in DOMAIN dispatcher : dispatcher[i].session # s
        BY DEF DispatchInv
  <2>2. \A i \in DOMAIN dispatcher' : i \in DOMAIN dispatcher \/ i = Len(dispatcher) + 1
        BY <1>2
  <2>3. pc'[s] = "wait" /\ \A u \in Sessions : u # s => pc'[u] = pc[u]
        BY DEF TypeOK
  <2>4. ASSUME NEW i \in DOMAIN dispatcher'
        PROVE  LET operation == dispatcher'[i]
                   u == operation.session
               IN  /\ pc'[u] = "wait"
                   /\ operation.window = Head(calls[u])
                   /\ operation.number = received[u]
                   /\ operation.seen = seen[u]
    <3>1. CASE i \in DOMAIN dispatcher
          BY <1>2, <2>1, <2>3, <3>1, OperationTypes DEF DispatchInv
    <3>2. CASE i = Len(dispatcher) + 1
          BY <1>2, <2>3, <3>2
    <3> QED BY <2>2, <3>1, <3>2
  <2>5. ASSUME NEW i \in DOMAIN dispatcher', NEW j \in DOMAIN dispatcher', i < j
        PROVE  dispatcher'[i].session # dispatcher'[j].session
    <3>1. i \in DOMAIN dispatcher
          BY <1>2, <2>5
    <3> QED BY <1>2, <2>1, <2>2, <2>5, <3>1 DEF DispatchInv
  <2> QED BY <2>4, <2>5 DEF DispatchInv
<1>6. ListInv' /\ ListedInOrder' /\ ListIsCausal' /\ ListedWhenPassed'
      BY DEF ListInv, ToCall, ListedInOrder, ListIsCausal, ListedWhenPassed, Subscribed, windows,
             history
<1>7. PendingInv'
  <2>1. \A u \in Sessions : pc'[u] # "idle" => pc[u] # "idle"
        BY DEF TypeOK
  <2> QED BY <2>1 DEF PendingInv, ToCall, Listed, Subscribed, windows, history
<1> QED BY <1>3, <1>4, <1>5, <1>6, <1>7

LEMMA PassIInv ==
    ASSUME IInv, NEW s \in Sessions, Pass(s)
    PROVE  IInv'
<1> USE CaptureAssumption DEF IInv, Pass
<1>1. /\ passed'[s] = received[s] /\ pc'[s] = "idle" /\ passed[s] <= passed'[s]
      /\ received[s] = passed[s] + 1
      /\ \A u \in Sessions : u # s => passed'[u] = passed[u] /\ pc'[u] = pc[u]
      BY DEF TypeOK, CountInv
<1>2. \A u \in Sessions : passed[u] \in Nat /\ passed'[u] \in Nat /\ passed[u] <= passed'[u]
      BY <1>1 DEF TypeOK
<1>3. TypeOK'
      BY DEF TypeOK, windows, history
<1>4. HandlersInv' /\ CallsInv'
      BY <1>1 DEF HandlersInv, CallsInv, windows
<1>5. CountInv'
  <2> SUFFICES ASSUME NEW u \in Sessions
               PROVE  received[u] = passed'[u] + (IF pc'[u] = "idle" THEN 0 ELSE 1)
      BY DEF CountInv
  <2>1. CASE u = s
        BY <1>1, <1>2, <2>1
  <2>2. CASE u # s
        BY <1>1, <2>2 DEF CountInv
  <2> QED BY <2>1, <2>2
<1>6. DispatchInv'
  <2>1. \A i \in DOMAIN dispatcher : dispatcher[i].session # s
        BY DEF DispatchInv
  <2>2. \A i \in DOMAIN dispatcher :
           dispatcher[i].session \in Sessions /\ pc'[dispatcher[i].session] = pc[dispatcher[i].session]
        BY <1>1, <2>1, OperationTypes
  <2> QED BY <2>2 DEF DispatchInv
<1>7. HistoryInv'
  <2>1. \A w \in Windows, u \in Sessions : gone[w][u] \in Nat /\ gone[w][u] <= passed'[u]
        BY <1>2, SMTT(20) DEF HistoryInv, TypeOK
  <2>2. \A u, t \in Sessions : seen[u][t] \in Nat /\ seen[u][t] <= passed'[t]
        BY <1>2, SMTT(20) DEF HistoryInv, TypeOK
  <2> QED BY <2>1, <2>2 DEF HistoryInv, history
<1>8. ListInv'
  <2> SUFFICES ASSUME NEW w \in Windows, NEW i \in DOMAIN list[w], NEW t \in Sessions
               PROVE  list[w][i].seen[t] <= passed'[t]
      BY DEF ListInv, ToCall
  <2> QED BY <1>2, ListingTypes DEF ListInv
<1>9. ListedInOrder' /\ ListIsCausal'
      BY DEF ListedInOrder, ListIsCausal, history
<1>10. PendingInv'
      BY <1>1 DEF PendingInv, ToCall, Listed, Subscribed, Source, windows, history
<1>11. ListedWhenPassed'
  <2> SUFFICES ASSUME NEW w \in Windows, NEW u \in Sessions,
                      Subscribed(w, u), capturing[w], NEW n \in from[w][u] + 1 .. passed'[u]
               PROVE  Listed(w, u, n)
      BY DEF ListedWhenPassed, Listed, Subscribed, Source, windows, history
  <2>1. from[w][u] \in Nat /\ received[u] \in Nat
        BY DEF TypeOK
  <2>2. CASE n \in from[w][u] + 1 .. passed[u]
        BY <2>2 DEF ListedWhenPassed, Listed
  <2>3. CASE n \notin from[w][u] + 1 .. passed[u]
    <3>1. u = s /\ n = received[s] /\ from[w][s] < received[s]
          BY <1>1, <1>2, <2>1, <2>3
    <3>2. ~ToCall(w, s)
          BY DEF ToCall
    <3> QED BY <3>1, <3>2 DEF PendingInv
  <2> QED BY <2>2, <2>3
<1> QED BY <1>3, <1>4, <1>5, <1>6, <1>7, <1>8, <1>9, <1>10, <1>11

-----------------------------------------------------------------------------
(* The UI thread.                                                          *)

LEMMA RunIInv ==
    ASSUME IInv, RunOperation
    PROVE  IInv'
<1> USE CaptureAssumption DEF IInv, RunOperation
<1> DEFINE op == Head(dispatcher)
<1>1. /\ dispatcher \in Seq(Operation) /\ dispatcher # << >>
      /\ dispatcher' \in Seq(Operation) /\ 1 \in DOMAIN dispatcher /\ op = dispatcher[1]
      /\ DOMAIN dispatcher = 1..Len(dispatcher) /\ DOMAIN dispatcher' = 1..Len(dispatcher) - 1
      /\ Len(dispatcher) \in Nat
      /\ \A i \in DOMAIN dispatcher' : dispatcher'[i] = dispatcher[i + 1]
      BY TailFacts DEF TypeOK
<1> PICK s \in Sessions, w \in Windows : op.session = s /\ op.window = w
      BY <1>1, OperationTypes
<1> DEFINE last == Len(list[w]) + 1
<1>2. op.number \in 1..MaxPackets /\ op.seen \in [Sessions -> 0..MaxPackets]
      BY <1>1, OperationTypes
<1>3. /\ pc[s] = "wait" /\ w = Head(calls[s]) /\ op.number = received[s] /\ op.seen = seen[s]
      /\ calls[s] # << >>
      BY <1>1, <1>2, SMTT(20) DEF DispatchInv, CallsInv
<1>4. calls' = [calls EXCEPT ![s] = Tail(@)] /\ pc' = [pc EXCEPT ![s] = "call"]
      OBVIOUS
<1>5. /\ pc'[s] = "call" /\ \A u \in Sessions : u # s => pc'[u] = pc[u]
      /\ \A u \in Sessions : pc'[u] = "idle" <=> pc[u] = "idle"
      BY <1>2, <1>3, <1>4 DEF TypeOK
<1>6. ToCall(w, s)
  <2>1. calls[s] \in Seq(Windows)
        BY <1>2 DEF TypeOK
  <2> QED BY <1>3, <2>1, TailFacts DEF ToCall
<1>7. Entry(op) \in Listing
      BY <1>2 DEF Entry, Listing
<1>8. /\ list[w] \in Seq(Listing) /\ list'[w] \in Seq(Listing)
      /\ DOMAIN list[w] = 1..Len(list[w]) /\ DOMAIN list'[w] = 1..last /\ Len(list[w]) \in Nat
      /\ \A i \in DOMAIN list[w] : list'[w][i] = list[w][i]
      /\ list'[w][last] = Entry(op)
  <2>1. list[w] \in Seq(Listing) /\ list'[w] = Append(list[w], Entry(op))
        BY <1>2 DEF TypeOK
  <2> QED BY <1>7, <2>1, AppendFacts
<1>9. \A v \in Windows : v # w => list'[v] = list[v]
      BY <1>2 DEF TypeOK
<1>10. \A i \in DOMAIN list'[w] : i \in DOMAIN list[w] \/ i = last
      BY <1>8
<1>11. TypeOK'
  <2>1. pc' \in [Sessions -> {"idle", "call", "wait"}]
        BY <1>4 DEF TypeOK
  <2>2. calls' \in [Sessions -> Seq(Windows)]
        BY <1>2, <1>3, <1>4, TailCalls
  <2>3. list' \in [Windows -> Seq(Listing)]
        BY <1>2, <1>8 DEF TypeOK
  <2> QED BY <1>1, <2>1, <2>2, <2>3 DEF TypeOK, windows, history
<1>12. HandlersInv' /\ CountInv' /\ HistoryInv'
      BY <1>5 DEF HandlersInv, CountInv, HistoryInv, windows, history
<1>13. CallsInv'
  <2>1. \A u \in Sessions : u # s => calls'[u] = calls[u]
        BY <1>2, <1>3, <1>4, TailCalls
  <2>2. \A u \in Sessions : \A i, j \in DOMAIN calls'[u] : i < j => calls'[u][i] < calls'[u][j]
        BY <1>2, <1>3, <1>4, TailCalls
  <2> QED BY <1>5, <2>1, <2>2 DEF CallsInv
<1>14. DispatchInv'
  <2>1. ASSUME NEW i \in DOMAIN dispatcher'
        PROVE  i + 1 \in DOMAIN dispatcher /\ dispatcher[i + 1].session # s
    <3>1. i + 1 \in DOMAIN dispatcher /\ 1 < i + 1
          BY <1>1, <2>1
    <3> QED BY <1>1, <3>1 DEF DispatchInv
  <2>2. ASSUME NEW i \in DOMAIN dispatcher'
        PROVE  LET operation == dispatcher'[i]
                   u == operation.session
               IN  /\ pc'[u] = "wait"
                   /\ operation.window = Head(calls'[u])
                   /\ operation.number = received[u]
                   /\ operation.seen = seen[u]
    <3>1. dispatcher'[i] = dispatcher[i + 1] /\ dispatcher[i + 1].session \in Sessions
          BY <1>1, <2>1, <2>2, OperationTypes
    <3>2. /\ pc'[dispatcher[i + 1].session] = pc[dispatcher[i + 1].session]
          /\ calls'[dispatcher[i + 1].session] = calls[dispatcher[i + 1].session]
          BY <1>2, <1>3, <1>4, <1>5, <2>1, <3>1, TailCalls
    <3> QED BY <2>1, <3>1, <3>2 DEF DispatchInv
  <2>3. ASSUME NEW i \in DOMAIN dispatcher', NEW j \in DOMAIN dispatcher', i < j
        PROVE  dispatcher'[i].session # dispatcher'[j].session
    <3>1. i + 1 \in DOMAIN dispatcher /\ j + 1 \in DOMAIN dispatcher /\ i + 1 < j + 1
          BY <1>1, <2>3
    <3>2. dispatcher[i + 1].session # dispatcher[j + 1].session
          BY <3>1 DEF DispatchInv
    <3> QED BY <1>1, <2>3, <3>2
  <2> QED BY <2>2, <2>3 DEF DispatchInv
<1>15. /\ list'[w][last].session = s /\ list'[w][last].number = received[s]
       /\ list'[w][last].seen = seen[s]
       /\ \A v \in Windows : \A i \in DOMAIN list'[v] :
             (v = w /\ i = last) \/ (i \in DOMAIN list[v] /\ list'[v][i] = list[v][i])
       /\ \A v \in Windows : \A i \in DOMAIN list[v] :
             i \in DOMAIN list'[v] /\ list'[v][i] = list[v][i]
  <2>1. Entry(op).session = s /\ Entry(op).number = received[s] /\ Entry(op).seen = seen[s]
        BY <1>3 DEF Entry
  <2>2. \A v \in Windows : \A i \in DOMAIN list'[v] :
           (v = w /\ i = last) \/ (i \in DOMAIN list[v] /\ list'[v][i] = list[v][i])
        BY <1>8, <1>9, <1>10
  <2>3. \A v \in Windows : \A i \in DOMAIN list[v] :
           i \in DOMAIN list'[v] /\ list'[v][i] = list[v][i]
    <3>1. \A i \in DOMAIN list[w] : i \in DOMAIN list'[w]
          BY <1>8
    <3> QED BY <1>8, <1>9, <3>1
  <2> QED BY <1>8, <2>1, <2>2, <2>3
<1>16. ListInv'
  <2>1. \A v : \A u \in Sessions : ToCall(v, u)' => ToCall(v, u)
        BY <1>2, <1>3, <1>4, TailCalls
  <2>2. ~ToCall(w, s)'
        BY <1>2, <1>3, <1>4, TailCalls
  <2>3. ASSUME NEW v \in Windows, NEW i \in DOMAIN list'[v], NEW u \in Sessions,
               u = list'[v][i].session
        PROVE  /\ list'[v][i].number <= received[u]
               /\ \A t \in Sessions : list'[v][i].seen[t] <= passed[t]
               /\ ToCall(v, u)' => list'[v][i].number < received[u]
    <3>1. CASE v = w /\ i = last
      <4>1. u = s /\ list'[v][i].number = received[s] /\ list'[v][i].seen = seen[s]
            BY <1>15, <2>3, <3>1
      <4>2. received[s] <= received[s]
            BY DEF TypeOK
      <4> QED BY <2>2, <3>1, <4>1, <4>2 DEF HistoryInv
    <3>2. CASE i \in DOMAIN list[v] /\ list'[v][i] = list[v][i]
      <4>1. ToCall(v, u)' => ToCall(v, u)
            BY <2>1
      <4>2. /\ list[v][i].number <= received[u]
            /\ \A t \in Sessions : list[v][i].seen[t] <= passed[t]
            /\ ToCall(v, u) => list[v][i].number < received[u]
            BY <2>3, <3>2 DEF ListInv
      <4> QED BY <3>2, <4>1, <4>2
    <3> QED BY <1>15, <2>3, <3>1, <3>2
  <2>4. \A v \in Windows : \A i \in DOMAIN list'[v] : list'[v][i].session \in Sessions
        BY <1>15, ListingTypes
  <2> QED BY <2>3, <2>4 DEF ListInv, ToCall
<1>17. ListedInOrder'
  <2>1. ASSUME NEW v \in Windows, NEW i \in DOMAIN list'[v], NEW j \in DOMAIN list'[v],
               i < j, list'[v][i].session = list'[v][j].session
        PROVE  list'[v][i].number < list'[v][j].number
    <3>1. CASE v # w
          BY <1>9, <2>1, <3>1 DEF ListedInOrder
    <3>2. CASE v = w /\ j # last
      <4>1. i \in DOMAIN list[w] /\ j \in DOMAIN list[w]
            BY <1>8, <2>1, <3>2
      <4> QED BY <1>2, <1>8, <2>1, <3>2, <4>1 DEF ListedInOrder
    <3>3. CASE v = w /\ j = last
      <4>1. i \in DOMAIN list[w] /\ list[w][i].session = s
            BY <1>8, <1>15, <2>1, <3>3, SMTT(20)
      <4> QED BY <1>2, <1>6, <1>8, <1>15, <3>3, <4>1, SMTT(20) DEF ListInv
    <3> QED BY <3>1, <3>2, <3>3
  <2>2. ASSUME NEW v \in Windows, NEW i \in DOMAIN list'[v]
        PROVE  list'[v][i].number > gone[v][list'[v][i].session]
    <3>1. CASE v = w /\ i = last
      <4>1. gone[w][s] <= passed[s] /\ received[s] = passed[s] + 1
            BY <1>2, <1>3 DEF HistoryInv, CountInv
      <4>2. gone[w][s] \in Nat /\ passed[s] \in Nat
            BY <1>2 DEF TypeOK
      <4> QED BY <1>8, <1>15, <3>1, <4>1, <4>2, SMTT(20)
    <3>2. CASE i \in DOMAIN list[v] /\ list'[v][i] = list[v][i]
          BY <3>2 DEF ListedInOrder
    <3> QED BY <1>8, <1>9, <1>10, <2>2, <3>1, <3>2
  <2> QED BY <2>1, <2>2 DEF ListedInOrder, history
<1>18. ListIsCausal'
  <2> SUFFICES ASSUME NEW v \in Windows, NEW i \in DOMAIN list'[v], NEW j \in DOMAIN list'[v], i < j
               PROVE  list'[v][i].seen[list'[v][j].session] < list'[v][j].number
      BY DEF ListIsCausal
  <2>1. CASE v # w
        BY <1>9, <2>1 DEF ListIsCausal
  <2>2. CASE v = w /\ j # last
    <3>1. i \in DOMAIN list[w] /\ j \in DOMAIN list[w]
          BY <1>8, <2>2
    <3>2. list[w][i].seen[list[w][j].session] < list[w][j].number
          BY <3>1 DEF ListIsCausal
    <3>3. list'[v][i] = list[w][i] /\ list'[v][j] = list[w][j]
          BY <1>8, <2>2, <3>1
    <3> QED BY <3>2, <3>3
  <2>3. CASE v = w /\ j = last
    <3>1. i \in DOMAIN list[w]
          BY <1>8, <2>3
    <3>2. list[w][i].seen[s] <= passed[s] /\ list[w][i].seen[s] \in Nat
          BY <1>2, <3>1, ListingTypes DEF ListInv
    <3>3. received[s] = passed[s] + 1 /\ passed[s] \in Nat
          BY <1>2, <1>3 DEF CountInv, TypeOK
    <3>4. list'[v][i] = list[w][i]
          BY <1>15, <2>3, <3>1
    <3>5. list'[v][j].session = s /\ list'[v][j].number = received[s]
          BY <1>15, <2>3
    <3>6. list[w][i].seen[s] < received[s]
          BY <3>2, <3>3
    <3> QED BY <3>4, <3>5, <3>6
  <2> QED BY <2>1, <2>2, <2>3
<1>19. \A v \in Windows, u \in Sessions, n \in Nat : Listed(v, u, n) => Listed(v, u, n)'
      BY <1>15 DEF Listed
<1>20. PendingInv'
  <2> SUFFICES ASSUME NEW v \in Windows, NEW u \in Sessions,
                      Subscribed(v, u), capturing[v], pc[u] # "idle", from[v][u] < received[u]
               PROVE  ToCall(v, u)' \/ Listed(v, u, received[u])'
      BY <1>5 DEF PendingInv, Listed, Subscribed, Source, windows, history
  <2>1. ToCall(v, u) \/ Listed(v, u, received[u])
        BY DEF PendingInv
  <2>2. received[u] \in Nat
        BY DEF TypeOK
  <2>3. Listed(v, u, received[u]) => Listed(v, u, received[u])'
    <3>1. received' = received
          OBVIOUS
    <3> QED BY <1>19, <2>2, <3>1
  <2>4. CASE u # s
    <3>1. calls'[u] = calls[u]
          BY <1>2, <1>3, <1>4, <2>4, TailCalls
    <3>2. ToCall(v, u) => ToCall(v, u)'
          BY <3>1 DEF ToCall
    <3> QED BY <2>1, <2>3, <3>2
  <2>5. CASE u = s /\ v # w
    <3>1. ToCall(v, s)' <=> ToCall(v, s) /\ v # Head(calls[s])
          BY <1>2, <1>3, <1>4, TailCalls
    <3> QED BY <1>3, <2>1, <2>3, <2>5, <3>1
  <2>6. CASE u = s /\ v = w
    <3>1. last \in DOMAIN list'[w] /\ received' = received
          BY <1>8
    <3>2. Listed(w, s, received[s])'
          BY <1>15, <3>1 DEF Listed
    <3> QED BY <2>6, <3>2
  <2> QED BY <2>4, <2>5, <2>6
<1>21. ListedWhenPassed'
  <2> SUFFICES ASSUME NEW v \in Windows, NEW u \in Sessions,
                      Subscribed(v, u), capturing[v], NEW n \in from[v][u] + 1 .. passed[u]
               PROVE  Listed(v, u, n)'
      BY DEF ListedWhenPassed, Listed, Subscribed, Source, windows, history
  <2>1. from[v][u] \in Nat /\ passed[u] \in Nat
        BY DEF TypeOK
  <2>2. n \in Nat
        BY <2>1
  <2>3. Listed(v, u, n)
        BY DEF ListedWhenPassed, Listed
  <2> QED BY <1>19, <2>2, <2>3
<1> QED BY <1>11, <1>12, <1>13, <1>14, <1>16, <1>17, <1>18, <1>20, <1>21

\* A step that leaves the callbacks, the lists and the dispatcher alone.
LEMMA ListsStay ==
    ASSUME IInv, UNCHANGED <<network, list, dispatcher, gone>>
    PROVE  CallsInv' /\ CountInv' /\ DispatchInv' /\ ListInv' /\ ListedInOrder' /\ ListIsCausal'
<1> USE DEF IInv, network
<1>1. CallsInv' /\ CountInv' /\ DispatchInv'
      BY DEF CallsInv, CountInv, DispatchInv
<1>2. ListInv' /\ ListedInOrder' /\ ListIsCausal'
      BY DEF ListInv, ListedInOrder, ListIsCausal, ToCall
<1> QED BY <1>1, <1>2

LEMMA PassedReceived ==
    ASSUME TypeOK, CountInv, NEW s \in Sessions
    PROVE  passed[s] \in Nat /\ received[s] \in Nat /\ passed[s] <= received[s]
<1>1. passed[s] \in Nat /\ received[s] \in Nat
      BY DEF TypeOK
<1>2. received[s] = passed[s] \/ received[s] = passed[s] + 1
      BY <1>1 DEF CountInv
<1> QED BY <1>1, <1>2

\* A step after which each window either goes on as before or has just begun.
LEMMA BeginsAgain ==
    ASSUME IInv, UNCHANGED network,
           \A w \in Windows, s \in Sessions :
              Subscribed(w, s)' /\ capturing'[w] =>
                 \/ /\ Subscribed(w, s) /\ capturing[w]
                    /\ from'[w][s] = from[w][s] /\ list'[w] = list[w]
                 \/ from'[w][s] = received[s]
    PROVE  PendingInv' /\ ListedWhenPassed'
<1> USE DEF IInv, network
<1>1. PendingInv'
  <2> SUFFICES ASSUME NEW w \in Windows, NEW s \in Sessions,
                      Subscribed(w, s)', capturing'[w], pc[s] # "idle", from'[w][s] < received[s]
               PROVE  ToCall(w, s) \/ Listed(w, s, received[s])'
      BY DEF PendingInv, ToCall, Listed
  <2>1. from'[w][s] # received[s]
        BY PassedReceived
  <2> QED BY <2>1 DEF PendingInv, Listed
<1>2. ListedWhenPassed'
  <2> SUFFICES ASSUME NEW w \in Windows, NEW s \in Sessions,
                      Subscribed(w, s)', capturing'[w], NEW n \in from'[w][s] + 1 .. passed[s]
               PROVE  Listed(w, s, n)'
      BY DEF ListedWhenPassed, Listed
  <2>1. from'[w][s] # received[s]
        BY PassedReceived
  <2> QED BY <2>1 DEF ListedWhenPassed, Listed
<1> QED BY <1>1, <1>2

LEMMA ShowIInv ==
    ASSUME IInv, ShowPacketEditor
    PROVE  IInv'
<1> USE CaptureAssumption DEF IInv, ShowPacketEditor
<1>1. /\ opened' = opened + 1 /\ opened' \in Windows /\ opened \in Nat
      /\ handlers["client"] \in Seq(Windows) /\ handlers["server"] \in Seq(Windows)
      BY DEF TypeOK, Windows, Sources
<1>2. /\ handlers'["client"] = Append(handlers["client"], opened')
      /\ handlers'["server"] = handlers["server"]
      BY DEF TypeOK, Sources
<1>3. /\ handlers'["client"] \in Seq(Windows)
      /\ DOMAIN handlers'["client"] = 1..opened + 1 /\ Len(handlers'["client"]) = opened + 1
      /\ \A i \in DOMAIN handlers["client"] : handlers'["client"][i] = handlers["client"][i]
      /\ handlers'["client"][opened + 1] = opened'
      /\ DOMAIN handlers["client"] = 1..opened
  <2>1. Len(handlers["client"]) = opened
        BY DEF HandlersInv
  <2>2. /\ handlers'["client"] \in Seq(Windows)
        /\ DOMAIN handlers'["client"] = 1..opened + 1 /\ DOMAIN handlers["client"] = 1..opened
        /\ \A i \in DOMAIN handlers["client"] : handlers'["client"][i] = handlers["client"][i]
        /\ handlers'["client"][opened + 1] = opened'
        BY <1>1, <1>2, <2>1, AppendFacts
  <2> QED BY <1>1, <2>2, LenProperties
<1>4. from' = [from EXCEPT ![opened'] =
                  [s \in Sessions |-> IF Source(s) \in {"client"} THEN received[s] ELSE @[s]]]
      BY DEF Begin
<1>5. /\ \A w \in Windows, s \in Sessions : w # opened' => from'[w][s] = from[w][s]
      /\ \A s \in Sessions : Source(s) = "client" => from'[opened'][s] = received[s]
      /\ \A s \in Sessions : Source(s) # "client" => from'[opened'][s] = from[opened'][s]
      BY <1>1, <1>4 DEF TypeOK
<1>6. TypeOK'
  <2>1. handlers' \in [Sources -> Seq(Windows)]
        BY <1>1, <1>2, <1>3 DEF TypeOK, Sources
  <2>2. from' \in [Windows -> [Sessions -> 0..MaxPackets]]
        BY <1>1, <1>4 DEF TypeOK
  <2>3. opened' \in 0..MaxWindows
        BY <1>1 DEF Windows
  <2> QED BY <1>1, <2>1, <2>2, <2>3 DEF TypeOK, network
<1>7. HandlersInv'
  <2>1. \A i \in DOMAIN handlers'["client"] : handlers'["client"][i] = i
    <3>1. \A i \in DOMAIN handlers'["client"] : i \in DOMAIN handlers["client"] \/ i = opened + 1
          BY <1>1, <1>3
    <3> QED BY <1>1, <1>3, <3>1 DEF HandlersInv, Sources
  <2>2. \A i \in DOMAIN handlers'["server"] : handlers'["server"][i] = i
        BY <1>2 DEF HandlersInv, Sources
  <2>3. Len(handlers'["server"]) = opened' - 1
        BY <1>1, <1>2 DEF HandlersInv
  <2> QED BY <1>1, <1>3, <2>1, <2>2, <2>3 DEF HandlersInv, Sources
<1>8. HistoryInv'
  <2>1. \A w \in Windows, s \in Sessions : from'[w][s] <= received[s]
    <3>1. \A s \in Sessions : received[s] <= received[s]
          BY DEF TypeOK
    <3> QED BY <1>5, <3>1 DEF HistoryInv
  <2> QED BY <2>1 DEF HistoryInv, network
<1>9. \A w \in Windows, s \in Sessions :
         Subscribed(w, s)' => Subscribed(w, s) \/ (w = opened' /\ Source(s) = "client")
      BY <1>1 DEF Subscribed, Windows, Source
<1>10. \A w \in Windows : w = opened' => \A s \in Sessions : ~Subscribed(w, s)
      BY <1>1 DEF Subscribed
<1>11. \A w \in Windows, s \in Sessions :
          Subscribed(w, s)' =>
              (Subscribed(w, s) /\ from'[w][s] = from[w][s]) \/ from'[w][s] = received[s]
      BY <1>5, <1>9, <1>10
<1>12. PendingInv' /\ ListedWhenPassed'
      BY <1>11, BeginsAgain
<1> QED BY <1>6, <1>7, <1>8, <1>12, ListsStay

LEMMA SubscribeIInv ==
    ASSUME IInv, SubscribeServer
    PROVE  IInv'
<1> USE CaptureAssumption DEF IInv, SubscribeServer
<1>1. /\ opened \in Windows /\ opened \in Nat
      /\ handlers["client"] \in Seq(Windows) /\ handlers["server"] \in Seq(Windows)
      BY DEF TypeOK, Windows, Sources
<1>2. /\ handlers'["server"] = Append(handlers["server"], opened)
      /\ handlers'["client"] = handlers["client"]
      BY DEF TypeOK, Sources
<1>3. /\ handlers'["server"] \in Seq(Windows)
      /\ DOMAIN handlers'["server"] = 1..opened /\ Len(handlers'["server"]) = opened
      /\ \A i \in DOMAIN handlers["server"] : handlers'["server"][i] = handlers["server"][i]
      /\ handlers'["server"][opened] = opened
      /\ DOMAIN handlers["server"] = 1..opened - 1
  <2>1. Len(handlers["server"]) = opened - 1
        BY DEF HandlersInv
  <2>2. /\ handlers'["server"] \in Seq(Windows)
        /\ DOMAIN handlers'["server"] = 1..(opened - 1) + 1
        /\ DOMAIN handlers["server"] = 1..opened - 1
        /\ \A i \in DOMAIN handlers["server"] : handlers'["server"][i] = handlers["server"][i]
        /\ handlers'["server"][(opened - 1) + 1] = opened
        BY <1>1, <1>2, <2>1, AppendFacts
  <2>3. (opened - 1) + 1 = opened
        BY <1>1
  <2> QED BY <1>1, <2>2, <2>3, LenProperties
<1>4. from' = [from EXCEPT ![opened] =
                  [s \in Sessions |-> IF Source(s) \in {"server"} THEN received[s] ELSE @[s]]]
      BY DEF Begin
<1>5. /\ \A w \in Windows, s \in Sessions : w # opened' => from'[w][s] = from[w][s]
      /\ \A s \in Sessions : Source(s) = "server" => from'[opened][s] = received[s]
      /\ \A s \in Sessions : Source(s) # "server" => from'[opened][s] = from[opened][s]
      BY <1>1, <1>4 DEF TypeOK
<1>6. TypeOK'
  <2>1. handlers' \in [Sources -> Seq(Windows)]
        BY <1>1, <1>2, <1>3 DEF TypeOK, Sources
  <2>2. from' \in [Windows -> [Sessions -> 0..MaxPackets]]
        BY <1>1, <1>4 DEF TypeOK
  <2> QED BY <1>1, <2>1, <2>2 DEF TypeOK, network
<1>7. HandlersInv'
  <2>1. \A i \in DOMAIN handlers'["server"] : handlers'["server"][i] = i
    <3>1. \A i \in DOMAIN handlers'["server"] : i \in DOMAIN handlers["server"] \/ i = opened
          BY <1>1, <1>3
    <3> QED BY <1>1, <1>3, <3>1 DEF HandlersInv, Sources
  <2> QED BY <1>1, <1>2, <1>3, <2>1 DEF HandlersInv, Sources
<1>8. HistoryInv'
  <2>1. \A w \in Windows, s \in Sessions : from'[w][s] <= received[s]
    <3>1. \A s \in Sessions : received[s] <= received[s]
          BY DEF TypeOK
    <3> QED BY <1>5, <3>1 DEF HistoryInv
  <2> QED BY <2>1 DEF HistoryInv, network
<1>9. \A w \in Windows, s \in Sessions :
         Subscribed(w, s)' => Subscribed(w, s) \/ (w = opened /\ Source(s) = "server")
      BY <1>1, SourceType DEF Subscribed, Windows, Source, Sources
<1>10. \A s \in Sessions : Source(s) = "server" => ~Subscribed(opened, s)
      BY <1>1 DEF Subscribed
<1>11. PendingInv' /\ ListedWhenPassed'
      BY <1>5, <1>9, <1>10, BeginsAgain
<1> QED BY <1>6, <1>7, <1>8, <1>11, ListsStay

LEMMA ClosedIInv ==
    ASSUME IInv, Closed
    PROVE  IInv'
<1> USE CaptureAssumption DEF IInv, Closed
<1>1. TypeOK' /\ HandlersInv' /\ HistoryInv'
      BY DEF TypeOK, HandlersInv, HistoryInv, network, history
<1>2. PendingInv' /\ ListedWhenPassed'
      BY BeginsAgain DEF Subscribed, Source, history
<1> QED BY <1>1, <1>2, ListsStay DEF history

LEMMA ClearIInv ==
    ASSUME IInv, ClearPackets
    PROVE  IInv'
<1> USE CaptureAssumption DEF IInv, ClearPackets
<1>1. opened \in Windows
      BY DEF TypeOK
<1>2. from' = [from EXCEPT ![opened] =
                  [s \in Sessions |-> IF Source(s) \in Sources THEN received[s] ELSE @[s]]]
      BY DEF Begin
<1>3. /\ from'[opened] = [s \in Sessions |-> received[s]]
      /\ \A w \in Windows : w # opened => from'[w] = from[w] /\ gone'[w] = gone[w]
      /\ gone'[opened] = passed
      BY <1>1, <1>2, SourceType DEF TypeOK
<1>4. /\ list'[opened] = << >> /\ DOMAIN list'[opened] = {}
      /\ \A w \in Windows : w # opened => list'[w] = list[w]
      BY <1>1 DEF TypeOK
<1>5. TypeOK'
  <2>1. list' \in [Windows -> Seq(Listing)]
        BY <1>1, EmptySeq DEF TypeOK
  <2>2. /\ from' \in [Windows -> [Sessions -> 0..MaxPackets]]
        /\ gone' \in [Windows -> [Sessions -> 0..MaxPackets]]
        BY <1>1, <1>2 DEF TypeOK
  <2>3. clicks' \in 0..MaxClicks
        BY DEF TypeOK
  <2> QED BY <2>1, <2>2, <2>3 DEF TypeOK, network, windows
<1>6. HandlersInv' /\ CallsInv' /\ CountInv' /\ DispatchInv'
      BY DEF HandlersInv, CallsInv, CountInv, DispatchInv, network, windows
<1>7. HistoryInv'
  <2>1. \A s \in Sessions : received[s] <= received[s] /\ passed[s] <= passed[s]
        BY DEF TypeOK
  <2> QED BY <1>3, <2>1 DEF HistoryInv, network
<1>8. ListInv'
  <2> SUFFICES ASSUME NEW w \in Windows, w # opened
               PROVE  \A i \in DOMAIN list[w] :
                         /\ list[w][i].number <= received[list[w][i].session]
                         /\ \A t \in Sessions : list[w][i].seen[t] <= passed[t]
                         /\ ToCall(w, list[w][i].session) =>
                               list[w][i].number < received[list[w][i].session]
      BY <1>4, SMTT(20) DEF ListInv, ToCall, network
  <2> QED BY DEF ListInv
<1>9. ListedInOrder' /\ ListIsCausal'
      BY <1>3, <1>4 DEF ListedInOrder, ListIsCausal
<1>10. PendingInv' /\ ListedWhenPassed'
      BY <1>3, <1>4, BeginsAgain DEF Subscribed, Source, windows
<1> QED BY <1>5, <1>6, <1>7, <1>8, <1>9, <1>10

LEMMA CaptureIInv ==
    ASSUME IInv, CapturePackets
    PROVE  IInv'
<1> USE CaptureAssumption DEF IInv, CapturePackets
<1>1. opened \in Windows
      BY DEF TypeOK
<1>2. /\ capturing'[opened] = ~capturing[opened]
      /\ \A w \in Windows : w # opened => capturing'[w] = capturing[w]
      BY <1>1 DEF TypeOK
<1>3. /\ \A w \in Windows : w # opened => from'[w] = from[w]
      /\ capturing'[opened] => from'[opened] = [s \in Sessions |-> received[s]]
      /\ ~capturing'[opened] => from' = from
      /\ from' \in [Windows -> [Sessions -> 0..MaxPackets]]
  <2>1. CASE capturing[opened]
        BY <1>2, <2>1 DEF TypeOK
  <2>2. CASE ~capturing[opened]
    <3>1. from' = [from EXCEPT ![opened] =
                      [s \in Sessions |-> IF Source(s) \in Sources THEN received[s] ELSE @[s]]]
          BY <2>2 DEF Begin
    <3> QED BY <1>1, <1>2, <2>2, <3>1, SourceType DEF TypeOK
  <2> QED BY <2>1, <2>2
<1>4. TypeOK'
  <2>1. capturing' \in [Windows -> BOOLEAN] /\ clicks' \in 0..MaxClicks
        BY DEF TypeOK
  <2> QED BY <1>3, <2>1 DEF TypeOK, network, windows
<1>5. HandlersInv'
      BY DEF HandlersInv, windows
<1>6. HistoryInv'
  <2>1. \A s \in Sessions : received[s] <= received[s]
        BY DEF TypeOK
  <2>2. \A w \in Windows, s \in Sessions : from'[w][s] <= received[s]
        BY <1>3, <2>1 DEF HistoryInv
  <2> QED BY <2>2 DEF HistoryInv, network
<1>7. PendingInv' /\ ListedWhenPassed'
      BY <1>2, <1>3, BeginsAgain DEF Subscribed, Source, windows
<1> QED BY <1>4, <1>5, <1>6, <1>7, ListsStay

-----------------------------------------------------------------------------
LEMMA StepIInv == IInv /\ [Next]_vars => IInv'
<1> SUFFICES ASSUME IInv, [Next]_vars PROVE IInv'
    OBVIOUS
<1>1. ASSUME NEW s \in Sessions, Callback(s) PROVE IInv'
      BY <1>1, ReceiveIInv, IgnoreIInv, InvokeIInv, PassIInv DEF Callback
<1>2. CASE RunOperation
      BY <1>2, RunIInv
<1>3. CASE Click
      BY <1>3, ShowIInv, SubscribeIInv, ClosedIInv, ClearIInv, CaptureIInv DEF Click
<1>4. CASE UNCHANGED vars
  <2> USE <1>4 DEF IInv, vars, network, windows, history
  <2>1. TypeOK' /\ HandlersInv' /\ HistoryInv'
        BY DEF TypeOK, HandlersInv, HistoryInv
  <2>2. PendingInv' /\ ListedWhenPassed'
        BY DEF PendingInv, ListedWhenPassed, ToCall, Listed, Subscribed
  <2> QED BY <2>1, <2>2, ListsStay
<1> QED BY <1>1, <1>2, <1>3, <1>4 DEF Next

\* The fields keep their types whatever is received, opened and clicked.
THEOREM TypeCorrect == Spec => []TypeOK
<1>1. IInv => TypeOK
      BY DEF IInv
<1> QED BY <1>1, InitIInv, StepIInv, PTL DEF Spec

\* A window that captures misses nothing that has been passed on since it began, and no list
\* shows a packet twice, or two packets of a session out of order: Dispatcher.Invoke makes
\* the callback wait (PacketEditor.xaml.cs:76).
THEOREM ListCorrect == Spec => []ListIsFaithful
<1>1. IInv => ListIsFaithful
      BY DEF IInv, ListIsFaithful
<1> QED BY <1>1, InitIInv, StepIInv, PTL DEF Spec

\* A packet is listed after those it can be an answer to, over all sessions.
THEOREM CausalCorrect == Spec => []ListIsCausal
<1>1. IInv => ListIsCausal
      BY DEF IInv
<1> QED BY <1>1, InitIInv, StepIInv, PTL DEF Spec

=============================================================================
