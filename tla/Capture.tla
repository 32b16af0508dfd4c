------------------------------ MODULE Capture -------------------------------
(***************************************************************************)
(* From the receive callbacks to the lists of the packet editor.           *)
(*                                                                         *)
(* Each session has one receive callback.  It raises ClientRecv, which     *)
(* NetworkManager turns into ClientPacketEx or ServerPacketEx, by the      *)
(* peer's address, and only then enqueues the packet, so that it can go on *)
(* its way.  Every window of the editor ever opened handles both           *)
(* delegates: it tests CapturePackets on the callback's thread, and adds   *)
(* the packet to its list on the UI thread, by Dispatcher.Invoke, for      *)
(* which the callback waits.  The UI thread runs one operation or click at *)
(* a time, operations in the order they were posted.                       *)
(***************************************************************************)
EXTENDS Naturals, Sequences

CONSTANTS
    Sessions,       \* sessions of the proxy, each with its receive callback
    Local,          \* those whose peer is 127.0.0.1
    MaxPackets,     \* bound: packets received by each session
    MaxWindows,     \* bound: editor windows opened
    MaxClicks       \* bound: clicks on "clear" and "capture"

ASSUME CaptureAssumption ==
    /\ Local \subseteq Sessions
    /\ MaxPackets \in Nat /\ MaxWindows \in Nat /\ MaxClicks \in Nat

Windows == 1..MaxWindows
Sources == {"client", "server"}

VARIABLES
    pc,             \* the callback: "idle", "call" (handlers to call) or "wait" (in Invoke)
    calls,          \* the windows whose handlers it has still to call
    received,       \* packets received by each session, numbered 1, 2, ...
    passed,         \* packets put into readBuffers
    handlers,       \* ClientPacketEx and ServerPacketEx
    opened,         \* windows opened so far; the last one may be visible
    visible,
    constructing,   \* a window of which only the first handler is subscribed
    capturing,      \* CapturePackets of each window
    list,           \* packetsListItems of each window
    dispatcher,     \* operations posted to the UI thread
    clicks,
    seen,           \* history: "passed" when a session received its last packet
    from,           \* history: for each window and session, the packets received when
                    \* the window last began: subscribed, cleared, or set to capture
    gone            \* history: the packets passed on when the window was last cleared

network == <<pc, calls, received, passed, seen>>
windows == <<handlers, opened, visible, constructing>>
history == <<from, gone>>
vars == <<network, windows, capturing, list, dispatcher, clicks, history>>

Source(s) == IF s \in Local THEN "client" ELSE "server"

Init ==
    /\ pc = [s \in Sessions |-> "idle"]
    /\ calls = [s \in Sessions |-> << >>]
    /\ received = [s \in Sessions |-> 0]
    /\ passed = [s \in Sessions |-> 0]
    /\ handlers = [x \in Sources |-> << >>]
    /\ opened = 0 /\ visible = FALSE /\ constructing = FALSE
    /\ capturing = [w \in Windows |-> TRUE]
    /\ list = [w \in Windows |-> << >>]
    /\ dispatcher = << >>
    /\ clicks = 0
    /\ seen = [s \in Sessions |-> [t \in Sessions |-> 0]]
    /\ from = [w \in Windows |-> [s \in Sessions |-> 0]]
    /\ gone = [w \in Windows |-> [s \in Sessions |-> 0]]

-----------------------------------------------------------------------------
(* The receive callbacks.                                                  *)

\* Faulty variant: the packet is enqueued before ClientRecv is raised.
Receive_PassFirst(s) ==
    /\ pc[s] = "idle" /\ received[s] < MaxPackets
    /\ received' = [received EXCEPT ![s] = @ + 1]
    /\ passed' = [passed EXCEPT ![s] = received'[s]]
    /\ seen' = [seen EXCEPT ![s] = passed]
    /\ calls' = [calls EXCEPT ![s] = handlers[Source(s)]]
    /\ pc' = [pc EXCEPT ![s] = "call"]
    /\ UNCHANGED <<windows, capturing, list, dispatcher, clicks, history>>

\* Server_ClientRecv: the delegate is read once, then its handlers are called in turn.
Receive(s) ==
    /\ pc[s] = "idle" /\ received[s] < MaxPackets
    /\ received' = [received EXCEPT ![s] = @ + 1]
    /\ seen' = [seen EXCEPT ![s] = passed]
    /\ calls' = [calls EXCEPT ![s] = handlers[Source(s)]]
    /\ pc' = [pc EXCEPT ![s] = "call"]
    /\ UNCHANGED <<passed, windows, capturing, list, dispatcher, clicks, history>>

\* OnClientPacket or OnServerPacket of a window that does not capture,
Ignore(s) ==
    /\ pc[s] = "call" /\ calls[s] # << >>
    /\ ~capturing[Head(calls[s])]
    /\ calls' = [calls EXCEPT ![s] = Tail(@)]
    /\ UNCHANGED <<pc, received, passed, seen, windows, capturing, list, dispatcher, clicks,
                   history>>

\* and of one that does.
Invoke(s) ==
    /\ pc[s] = "call" /\ calls[s] # << >>
    /\ capturing[Head(calls[s])]
    /\ dispatcher' = Append(dispatcher, [session |-> s, window |-> Head(calls[s]),
                                         number |-> received[s], seen |-> seen[s]])
    /\ pc' = [pc EXCEPT ![s] = "wait"]
    /\ UNCHANGED <<calls, received, passed, seen, windows, capturing, list, clicks, history>>

\* All handlers are called; the packet goes into readBuffers.
Pass(s) ==
    /\ pc[s] = "call" /\ calls[s] = << >>
    /\ passed' = [passed EXCEPT ![s] = received[s]]
    /\ pc' = [pc EXCEPT ![s] = "idle"]
    /\ UNCHANGED <<calls, received, seen, windows, capturing, list, dispatcher, clicks, history>>

-----------------------------------------------------------------------------
(* The UI thread.  Between the two subscriptions of a constructor it does  *)
(* nothing else.                                                           *)

Entry(operation) == [session |-> operation.session, number |-> operation.number,
                     seen |-> operation.seen]

\* Faulty variant: the operations of a closed window are not run.
RunOperation_Visible ==
    /\ ~constructing /\ dispatcher # << >>
    /\ Head(dispatcher).window = opened /\ visible
    /\ LET operation == Head(dispatcher)
       IN  /\ list' = [list EXCEPT ![operation.window] = Append(@, Entry(operation))]
           /\ pc' = [pc EXCEPT ![operation.session] = "call"]
           /\ calls' = [calls EXCEPT ![operation.session] = Tail(@)]
    /\ dispatcher' = Tail(dispatcher)
    /\ UNCHANGED <<received, passed, seen, windows, capturing, clicks, history>>

RunOperation ==
    /\ ~constructing /\ dispatcher # << >>
    /\ LET operation == Head(dispatcher)
       IN  /\ list' = [list EXCEPT ![operation.window] = Append(@, Entry(operation))]
           /\ pc' = [pc EXCEPT ![operation.session] = "call"]
           /\ calls' = [calls EXCEPT ![operation.session] = Tail(@)]
    /\ dispatcher' = Tail(dispatcher)
    /\ UNCHANGED <<received, passed, seen, windows, capturing, clicks, history>>

\* A window begins, so far as the sessions with this source are concerned.
Begin(w, sources) ==
    from' = [from EXCEPT ![w] = [s \in Sessions |-> IF Source(s) \in sources
                                                    THEN received[s] ELSE @[s]]]

\* Btn_ShowPacketEditor_Click: new PacketEditor() subscribes to one delegate,
ShowPacketEditor ==
    /\ ~constructing /\ ~visible /\ opened < MaxWindows
    /\ opened' = opened + 1
    /\ constructing' = TRUE
    /\ handlers' = [handlers EXCEPT !["client"] = Append(@, opened')]
    /\ Begin(opened', {"client"})
    /\ UNCHANGED <<network, visible, capturing, list, dispatcher, clicks, gone>>

\* and to the other.
SubscribeServer ==
    /\ constructing
    /\ handlers' = [handlers EXCEPT !["server"] = Append(@, opened)]
    /\ Begin(opened, {"server"})
    /\ constructing' = FALSE /\ visible' = TRUE
    /\ UNCHANGED <<network, opened, capturing, list, dispatcher, clicks, gone>>

\* The handlers of a closed window stay.
Closed ==
    /\ visible
    /\ visible' = FALSE
    /\ UNCHANGED <<network, handlers, opened, constructing, capturing, list, dispatcher, clicks,
                   history>>

ClearPackets ==
    /\ visible /\ clicks < MaxClicks
    /\ list' = [list EXCEPT ![opened] = << >>]
    /\ Begin(opened, Sources)
    /\ gone' = [gone EXCEPT ![opened] = passed]
    /\ clicks' = clicks + 1
    /\ UNCHANGED <<network, windows, capturing, dispatcher>>

CapturePackets ==
    /\ visible /\ clicks < MaxClicks
    /\ capturing' = [capturing EXCEPT ![opened] = ~@]
    /\ IF capturing[opened] THEN from' = from ELSE Begin(opened, Sources)
    /\ clicks' = clicks + 1
    /\ UNCHANGED <<network, windows, list, dispatcher, gone>>

Callback(s) == Receive(s) \/ Ignore(s) \/ Invoke(s) \/ Pass(s)
Click == ShowPacketEditor \/ SubscribeServer \/ Closed \/ ClearPackets \/ CapturePackets

Next == (\E s \in Sessions : Callback(s)) \/ RunOperation \/ Click

Spec == Init /\ [][Next]_vars

\* Callbacks run on, and so does the UI thread; nothing need be received or clicked.
FairSpec ==
    /\ Spec
    /\ \A s \in Sessions : WF_vars(Ignore(s) \/ Invoke(s) \/ Pass(s))
    /\ WF_vars(RunOperation) /\ WF_vars(SubscribeServer)

-----------------------------------------------------------------------------
Listing == [session : Sessions, number : 1..MaxPackets, seen : [Sessions -> 0..MaxPackets]]
Operation == [session : Sessions, window : Windows, number : 1..MaxPackets,
              seen : [Sessions -> 0..MaxPackets]]

\* The fields have their types.
TypeOK ==
    /\ pc \in [Sessions -> {"idle", "call", "wait"}]
    /\ calls \in [Sessions -> Seq(Windows)]
    /\ received \in [Sessions -> 0..MaxPackets] /\ passed \in [Sessions -> 0..MaxPackets]
    /\ handlers \in [Sources -> Seq(Windows)]
    /\ opened \in 0..MaxWindows /\ visible \in BOOLEAN /\ constructing \in BOOLEAN
    /\ visible \/ constructing => opened \in Windows
    /\ ~(visible /\ constructing)
    /\ capturing \in [Windows -> BOOLEAN]
    /\ list \in [Windows -> Seq(Listing)]
    /\ dispatcher \in Seq(Operation)
    /\ clicks \in 0..MaxClicks
    /\ seen \in [Sessions -> [Sessions -> 0..MaxPackets]]
    /\ from \in [Windows -> [Sessions -> 0..MaxPackets]]
    /\ gone \in [Windows -> [Sessions -> 0..MaxPackets]]

\* Whether window w has the handler for the packets of s.
Subscribed(w, s) == w < opened \/ (w = opened /\ (~constructing \/ Source(s) = "client"))

\* A list has no packet twice and those of one session in their order, and none that had
\* been passed on when it was cleared.
ListedInOrder ==
    \A w \in Windows :
        /\ \A i, j \in DOMAIN list[w] :
              i < j /\ list[w][i].session = list[w][j].session =>
                  list[w][i].number < list[w][j].number
        /\ \A i \in DOMAIN list[w] : list[w][i].number > gone[w][list[w][i].session]

\* What has been passed on since a capturing window began is in its list.
ListedWhenPassed ==
    \A w \in Windows, s \in Sessions :
        Subscribed(w, s) /\ capturing[w] =>
            \A n \in (from[w][s] + 1)..passed[s] :
                \E i \in DOMAIN list[w] : list[w][i].session = s /\ list[w][i].number = n

\* Of each session, a list shows what it has to, and that once and in order.
ListIsFaithful == ListedInOrder /\ ListedWhenPassed

\* A packet that can be an answer to another, because that one was passed on before this
\* one was received, is listed after it.
ListIsCausal ==
    \A w \in Windows : \A i, j \in DOMAIN list[w] :
        i < j => list[w][i].seen[list[w][j].session] < list[w][j].number

\* Every packet received goes on its way, however many windows have been opened and closed.
TrafficPasses ==
    \A s \in Sessions : pc[s] # "idle" ~> pc[s] = "idle"

=============================================================================
