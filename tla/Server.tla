------------------------------- MODULE Server -------------------------------
(***************************************************************************)
(* Network/Server.cs: the accept loop, the registration of the clients and *)
(* the end of the server, next to the receive callbacks of the clients it  *)
(* has accepted.                                                           *)
(*                                                                         *)
(* NetworkManager calls Listen once; from then on a single chain of        *)
(* AcceptAsync completions runs the server's own code, here one thread     *)
(* "server".  (A completion that is synchronous goes through "pending" at  *)
(* once, and ProcessDisconnect, which only that thread touches, is never   *)
(* set when Disconnect tests it.)  The constructor of ClientMain starts    *)
(* the session, so its callback may run before the client is registered.   *)
(*                                                                         *)
(* Raising an event reads the list of handlers once and then calls them in *)
(* turn; += and -= replace that list in one step.  What happens inside a   *)
(* session is the subject of Client; here it is open or closed, and the    *)
(* threads that find its connection gone (the receive callback, and the    *)
(* SendProcess work item) disconnect it, each of them in its own time:     *)
(* Client.OnClientState tests Connected and assigns it without a lock.     *)
(***************************************************************************)
EXTENDS Naturals, Sequences, SequencesExt

CONSTANTS
    Clients,        \* the connections that may be made
    NoClient,       \* not one of them
    Closers,        \* the threads that may disconnect one session
    MaxPackets,     \* bound: packets received on all the connections
    MaxResets       \* bound: accepts that end with ConnectionReset

VARIABLES
    pc, accepting,      \* the server thread, and the client it is about to register
    socket,             \* the field: "null" or "open"
    listening,          \* Listening
    resets,
    clients,            \* the list
    session,            \* "none", "waiting" in the backlog, "open" or "closed"
    connected,          \* Connected of each client
    closing,            \* where each thread is in the client's Disconnect: "idle", about to
                        \* "set" Connected, or to "raise" ClientState
    recvHandlers,       \* ClientRecv of each client
    stateHandler,       \* whether ClientState of each client has the server's handler
    received,           \* packets each session has received
    io,                 \* handlers the receive callback has yet to call for the last one,
                        \* and "queue" (readBuffers)
    recvReported,       \* events the server has raised for each client
    sendReported,
    stateReported,
    span,               \* history: the packets received between the subscription of
                        \* each handler and its removal
    early,              \* history: clients whose end was raised while nobody was listening
    doubled             \* history: clients of which a thread tested Connected while another
                        \* was between the test and the assignment

serverVars == <<pc, accepting, socket, listening, resets, clients>>
handlers   == <<recvHandlers, stateHandler>>
reports    == <<recvReported, sendReported, stateReported>>
history    == <<span, early, doubled>>
ends       == <<connected, closing>>
vars == <<serverVars, session, ends, handlers, received, io, reports, history>>

Init ==
    /\ pc = "listen" /\ accepting = NoClient
    /\ socket = "null" /\ listening = FALSE /\ resets = 0
    /\ clients = << >>
    /\ session = [c \in Clients |-> "none"]
    /\ connected = [c \in Clients |-> FALSE]
    /\ closing = [c \in Clients |-> [t \in Closers |-> "idle"]]
    /\ recvHandlers = [c \in Clients |-> << >>]
    /\ stateHandler = [c \in Clients |-> FALSE]
    /\ received = [c \in Clients |-> 0]
    /\ io = [c \in Clients |-> << >>]
    /\ recvReported = [c \in Clients |-> << >>]
    /\ sendReported = [c \in Clients |-> << >>]
    /\ stateReported = [c \in Clients |-> << >>]
    /\ span = [c \in Clients |-> [recv |-> << >>, send |-> << >>]]
    /\ early = {} /\ doubled = {}

-----------------------------------------------------------------------------
(* Listen and the accept loop.                                             *)

Listen ==
    /\ pc = "listen" /\ pc' = "accept"
    /\ socket' = "open" /\ listening' = TRUE
    /\ UNCHANGED <<accepting, resets, clients, session, ends, handlers, received, io, reports, history>>

\* The port is in use.
ListenFails ==
    /\ pc = "listen" /\ pc' = "disconnect"
    /\ UNCHANGED <<accepting, socket, listening, resets, clients, session, ends, handlers,
                   received, io, reports, history>>

AcceptAsync ==
    /\ pc = "accept" /\ pc' = "pending"
    /\ UNCHANGED <<accepting, socket, listening, resets, clients, session, ends, handlers,
                   received, io, reports, history>>

AcceptSuccess ==
    /\ pc = "pending" /\ pc' = "construct"
    /\ \E c \in Clients :
          /\ session[c] = "waiting"
          /\ accepting' = c
    /\ UNCHANGED <<socket, listening, resets, clients, session, ends, handlers, received, io,
                   reports, history>>

AcceptReset ==
    /\ pc = "pending" /\ resets < MaxResets
    /\ resets' = resets + 1
    /\ pc' = "accept"
    /\ UNCHANGED <<accepting, socket, listening, clients, session, ends, handlers, received, io,
                   reports, history>>

\* Any other error of the accept, or an exception of AcceptAsync.
AcceptFails ==
    /\ pc \in {"accept", "pending"} /\ pc' = "disconnect"
    /\ UNCHANGED <<accepting, socket, listening, resets, clients, session, ends, handlers,
                   received, io, reports, history>>

\* new ClientMain(this, s): BeginListen raises ClientState, which has no handler yet,
\* and starts to receive,
OnSocketSuccess ==
    /\ pc = "construct" /\ pc' = "addState"
    /\ session' = [session EXCEPT ![accepting] = "open"]
    /\ connected' = [connected EXCEPT ![accepting] = TRUE]
    /\ UNCHANGED <<accepting, socket, listening, resets, clients, closing, handlers, received,
                   io, reports, history>>

\* or fails, handles that by its own Disconnect and is added all the same.
OnSocketSuccessFails ==
    /\ pc = "construct" /\ pc' = "addState"
    /\ session' = [session EXCEPT ![accepting] = "closed"]
    /\ early' = early \cup {accepting}
    /\ UNCHANGED <<accepting, socket, listening, resets, clients, ends, handlers, received, io,
                   reports, span, doubled>>

\* AddClient.
AddState ==
    /\ pc = "addState" /\ pc' = "addRecv"
    /\ stateHandler' = [stateHandler EXCEPT ![accepting] = TRUE]
    /\ UNCHANGED <<accepting, socket, listening, resets, clients, session, ends, recvHandlers,
                   received, io, reports, history>>

AddRecv ==
    /\ pc = "addRecv" /\ pc' = "addSend"
    /\ recvHandlers' = [recvHandlers EXCEPT ![accepting] = Append(@, "recv")]
    /\ span' = [span EXCEPT ![accepting].recv = <<received[accepting]>>]
    /\ UNCHANGED <<accepting, socket, listening, resets, clients, session, ends, stateHandler,
                   received, io, reports, early, doubled>>

\* OnClientSend is added to ClientRecv, not to ClientSend.
AddSend ==
    /\ pc = "addSend" /\ pc' = "addList"
    /\ recvHandlers' = [recvHandlers EXCEPT ![accepting] = Append(@, "send")]
    /\ span' = [span EXCEPT ![accepting].send = <<received[accepting]>>]
    /\ UNCHANGED <<accepting, socket, listening, resets, clients, session, ends, stateHandler,
                   received, io, reports, early, doubled>>

AddList ==
    /\ pc = "addList" /\ pc' = "accept"
    /\ clients' = Append(clients, accepting)
    /\ accepting' = NoClient
    /\ UNCHANGED <<socket, listening, resets, session, ends, handlers, received, io, reports, history>>

-----------------------------------------------------------------------------
(* Disconnect.  It leaves the sessions of the clients alone.               *)

DisposeSocket ==
    /\ pc = "disconnect" /\ pc' = "remove"
    /\ socket' = "null"
    /\ UNCHANGED <<accepting, listening, resets, clients, session, ends, handlers, received, io,
                   reports, history>>

\* Faulty variant: RemoveAt(0) without the handlers.
RemoveRecv_Skip ==
    /\ pc = "remove" /\ clients # << >>
    /\ pc' = "removeState"
    /\ span' = [span EXCEPT ![Head(clients)].recv = Append(@, received[Head(clients)])]
    /\ UNCHANGED <<accepting, socket, listening, resets, clients, session, ends, handlers,
                   received, io, reports, early, doubled>>

RemoveRecv ==
    /\ pc = "remove" /\ clients # << >>
    /\ pc' = "removeState"
    /\ recvHandlers' = [recvHandlers EXCEPT ![Head(clients)] = RemoveFirst(@, "recv")]
    /\ span' = [span EXCEPT ![Head(clients)].recv = Append(@, received[Head(clients)])]
    /\ UNCHANGED <<accepting, socket, listening, resets, clients, session, ends, stateHandler,
                   received, io, reports, early, doubled>>

\* ClientSend -= OnClientSend removes nothing.
RemoveState ==
    /\ pc = "removeState" /\ pc' = "remove"
    /\ stateHandler' = [stateHandler EXCEPT ![Head(clients)] = FALSE]
    /\ clients' = Tail(clients)
    /\ UNCHANGED <<accepting, socket, listening, resets, session, ends, recvHandlers, received, io,
                   reports, history>>

OnServerState ==
    /\ pc = "remove" /\ clients = << >>
    /\ pc' = "down" /\ listening' = FALSE
    /\ UNCHANGED <<accepting, socket, resets, clients, session, ends, handlers, received, io,
                   reports, history>>

-----------------------------------------------------------------------------
(* The connections.                                                        *)

Connect(c) ==
    /\ socket = "open" /\ session[c] = "none"
    /\ session' = [session EXCEPT ![c] = "waiting"]
    /\ UNCHANGED <<serverVars, ends, handlers, received, io, reports, history>>

\* Client.AsyncReceive raises ClientRecv and then enqueues the packet.
Receive(c) ==
    /\ session[c] = "open" /\ io[c] = << >> /\ SumFunction(received) < MaxPackets
    /\ received' = [received EXCEPT ![c] = @ + 1]
    /\ io' = [io EXCEPT ![c] = Append(recvHandlers[c], "queue")]
    /\ UNCHANGED <<serverVars, session, ends, handlers, reports, history>>

OnClientRecv(c) ==
    /\ io[c] # << >> /\ Head(io[c]) = "recv"
    /\ io' = [io EXCEPT ![c] = Tail(@)]
    /\ recvReported' = [recvReported EXCEPT ![c] = Append(@, received[c])]
    /\ UNCHANGED <<serverVars, session, ends, handlers, received, sendReported, stateReported, history>>

OnClientSend(c) ==
    /\ io[c] # << >> /\ Head(io[c]) = "send"
    /\ io' = [io EXCEPT ![c] = Tail(@)]
    /\ sendReported' = [sendReported EXCEPT ![c] = Append(@, received[c])]
    /\ UNCHANGED <<serverVars, session, ends, handlers, received, recvReported, stateReported, history>>

Enqueue(c) ==
    /\ io[c] # << >> /\ Head(io[c]) = "queue"
    /\ io' = [io EXCEPT ![c] = Tail(@)]
    /\ UNCHANGED <<serverVars, session, ends, handlers, received, reports, history>>

\* Client.Disconnect closes the handle, if no other thread has, and reports the end,
\* unless Connected is false already.  (The close and the test are one step: the close
\* alone does no more than stop Receive.)
StateTest(c, t) ==
    /\ session[c] \in {"open", "closed"} /\ connected[c]
    /\ closing[c][t] = "idle"
    /\ session' = [session EXCEPT ![c] = "closed"]
    /\ closing' = [closing EXCEPT ![c][t] = "set"]
    /\ doubled' = IF \E u \in Closers : closing[c][u] = "set" THEN doubled \cup {c} ELSE doubled
    /\ UNCHANGED <<serverVars, connected, handlers, received, io, reports, span, early>>

StateSet(c, t) ==
    /\ closing[c][t] = "set"
    /\ closing' = [closing EXCEPT ![c][t] = "raise"]
    /\ connected' = [connected EXCEPT ![c] = FALSE]
    /\ UNCHANGED <<serverVars, session, handlers, received, io, reports, history>>

StateRaise(c, t) ==
    /\ closing[c][t] = "raise"
    /\ closing' = [closing EXCEPT ![c][t] = "idle"]
    /\ early' = IF stateHandler[c] THEN early ELSE early \cup {c}
    /\ stateReported' = IF stateHandler[c]
                        THEN [stateReported EXCEPT ![c] = Append(@, FALSE)]
                        ELSE stateReported
    /\ UNCHANGED <<serverVars, session, connected, handlers, received, io, recvReported,
                   sendReported, span, doubled>>

OnClientState(c, t) == StateTest(c, t) \/ StateSet(c, t) \/ StateRaise(c, t)

AddClient    == AddState \/ AddRecv \/ AddSend \/ AddList
AcceptClient ==
    \/ AcceptAsync \/ AcceptSuccess \/ AcceptReset \/ AcceptFails
    \/ OnSocketSuccess \/ OnSocketSuccessFails
    \/ AddClient
Disconnect   == DisposeSocket \/ RemoveRecv \/ RemoveState \/ OnServerState

AsyncReceive(c) == Receive(c) \/ OnClientRecv(c) \/ OnClientSend(c) \/ Enqueue(c)

Next ==
    \/ Listen \/ ListenFails \/ AcceptClient \/ Disconnect
    \/ \E c \in Clients :
          \/ Connect(c) \/ AsyncReceive(c)
          \/ \E t \in Closers : OnClientState(c, t)

Spec == Init /\ [][Next]_vars

-----------------------------------------------------------------------------
\* The packets in a span that the callback has dealt with: all that were received in
\* it, but for the one whose call is still to come.
Covered(c, s, call) ==
    IF s = << >> THEN << >>
    ELSE LET until == IF Len(s) = 2 THEN s[2] ELSE received[c]
             done  == IF Contains(io[c], call) /\ received[c] <= until
                      THEN received[c] - 1 ELSE until
         IN  [i \in 1..(done - s[1]) |-> s[1] + i]

ReportsWhileRegistered(c) ==
    /\ recvReported[c] = Covered(c, span[c].recv, "recv")
    /\ sendReported[c] = Covered(c, span[c].send, "send")

\* The end of a session that every thread is done with.
Ended(c) == session[c] = "closed" /\ ~connected[c] /\ \A t \in Closers : closing[c][t] = "idle"

LossIsReported(c) ==
    /\ \A i \in 1..Len(stateReported[c]) : stateReported[c][i] = FALSE
    /\ Len(stateReported[c]) > 1 => c \in doubled
    /\ Contains(clients, c) /\ Ended(c) => c \in early \/ stateReported[c] # << >>

\* ClientRecv of the server reports exactly the packets that a client receives between
\* its registration and the end of the server, once and in order; ClientSend reports
\* what the client has received too, and goes on when the server has disconnected
\* (Server.cs:166 and 216).  No beginning of a client is ever reported; the end of one
\* in the list is, unless it came before AddClient, and it is reported a second time
\* only when two threads were at once between the test of Connected and its assignment
\* (Client.cs:48-51).
EventsAreReported == \A c \in Clients : ReportsWhileRegistered(c) /\ LossIsReported(c)

=============================================================================
