---------------------------- MODULE RelaySession ----------------------------
(***************************************************************************)
(* A proxied TCP connection after the handshake: a ClientMain, connected   *)
(* to the application, and its ClientRelay, connected to the destination   *)
(* (Network/ClientExtensions).  Each passes what it receives to the other. *)
(*                                                                         *)
(* Both are Clients, and a Client receives and sends through two Pipes     *)
(* (SendRefinesPipe, RecvRefinesPipe of ClientProofs), so four Pipes and   *)
(* the two AsyncRecvProcess handlers between them are composed here.       *)
(* Chunks are numbered.                                                    *)
(***************************************************************************)
EXTENDS Naturals, Sequences

CONSTANT MaxChunks      \* bound: chunks from either end

ChunksAssumption == MaxChunks \in Nat

VARIABLES
    main, relay,        \* the sessions: "up", "closing" (socket closed, Connected still
                        \* set) or "down"
    mainArrived, mainProcessed,     \* what ClientMain received and processed
    relayAccepted, relaySent,       \* what Relay.Send accepted and the relay wrote
    relayArrived, relayProcessed,   \* the other direction
    mainAccepted, mainSent,
    mainWork,           \* AsyncRecvProcess of each: "idle", about to "disconnect" or to
    relayWork           \* "send", or to "post" what Send has found connected for

upVars   == <<mainArrived, mainProcessed, relayAccepted, relaySent, mainWork>>
downVars == <<relayArrived, relayProcessed, mainAccepted, mainSent, relayWork>>
vars     == <<main, relay, upVars, downVars>>

Chunks == 1..MaxChunks

\* A Client passes on the next message of a pipe.  Receiving goes on with what has
\* arrived even after Disconnect; sending ends with the socket.
Waiting(taken, given) == Len(given) < Len(taken)
Passed(taken, given)  == Append(given, taken[Len(given) + 1])

Last(s) == s[Len(s)]

Init ==
    /\ main = "up" /\ relay = "up"
    /\ mainArrived = << >> /\ mainProcessed = << >>
    /\ relayAccepted = << >> /\ relaySent = << >>
    /\ relayArrived = << >> /\ relayProcessed = << >>
    /\ mainAccepted = << >> /\ mainSent = << >>
    /\ mainWork = "idle" /\ relayWork = "idle"

-----------------------------------------------------------------------------
(* From the application to the destination.                                *)

MainReceive ==
    /\ main = "up" /\ Len(mainArrived) < MaxChunks
    /\ mainArrived' = Append(mainArrived, Len(mainArrived) + 1)
    /\ UNCHANGED <<main, relay, mainProcessed, relayAccepted, relaySent, mainWork, downVars>>

\* Faulty variant: once disconnected, ClientMain processes nothing any more.
MainTake_OnlyConnected ==
    /\ main # "down"
    /\ mainWork = "idle" /\ Waiting(mainArrived, mainProcessed)
    /\ mainProcessed' = Passed(mainArrived, mainProcessed)
    /\ mainWork' = IF relay = "down" THEN "disconnect" ELSE "send"
    /\ UNCHANGED <<main, relay, mainArrived, relayAccepted, relaySent, downVars>>

\* ClientMain.AsyncRecvProcess(packet) tests Relay.Connected.
MainTake ==
    /\ mainWork = "idle" /\ Waiting(mainArrived, mainProcessed)
    /\ mainProcessed' = Passed(mainArrived, mainProcessed)
    /\ mainWork' = IF relay = "down" THEN "disconnect" ELSE "send"
    /\ UNCHANGED <<main, relay, mainArrived, relayAccepted, relaySent, downVars>>

\* Faulty variant: the handler only returns.
MainDisconnect_Return ==
    /\ mainWork = "disconnect"
    /\ mainWork' = "idle"
    /\ UNCHANGED <<main, relay, mainArrived, mainProcessed, relayAccepted, relaySent, downVars>>

MainDisconnect ==
    /\ mainWork = "disconnect"
    /\ mainWork' = "idle"
    /\ main' = IF main = "up" THEN "closing" ELSE main
    /\ UNCHANGED <<relay, mainArrived, mainProcessed, relayAccepted, relaySent, downVars>>

\* Relay.Send tests Connected again and drops the packet if it is not.
RelaySendTest ==
    /\ mainWork = "send"
    /\ mainWork' = IF relay = "down" THEN "idle" ELSE "post"
    /\ UNCHANGED <<main, relay, mainArrived, mainProcessed, relayAccepted, relaySent, downVars>>

\* ... and enqueues it, whatever has become of the relay since.
RelaySendPost ==
    /\ mainWork = "post"
    /\ mainWork' = "idle"
    /\ relayAccepted' = Append(relayAccepted, Last(mainProcessed))
    /\ UNCHANGED <<main, relay, mainArrived, mainProcessed, relaySent, downVars>>

RelayWrite ==
    /\ relay = "up" /\ Waiting(relayAccepted, relaySent)
    /\ relaySent' = Passed(relayAccepted, relaySent)
    /\ UNCHANGED <<main, relay, mainArrived, mainProcessed, relayAccepted, mainWork, downVars>>

-----------------------------------------------------------------------------
(* From the destination to the application.                                *)

RelayReceive ==
    /\ relay = "up" /\ Len(relayArrived) < MaxChunks
    /\ relayArrived' = Append(relayArrived, Len(relayArrived) + 1)
    /\ UNCHANGED <<main, relay, relayProcessed, mainAccepted, mainSent, relayWork, upVars>>

\* ClientRelay.AsyncRecvProcess(packet) is Parent.Send(packet), which tests
\* Connected; a relay whose parent is gone goes on.
RelayTake ==
    /\ relayWork = "idle" /\ Waiting(relayArrived, relayProcessed)
    /\ relayProcessed' = Passed(relayArrived, relayProcessed)
    /\ relayWork' = IF main = "down" THEN "idle" ELSE "post"
    /\ UNCHANGED <<main, relay, relayArrived, mainAccepted, mainSent, upVars>>

MainSendPost ==
    /\ relayWork = "post"
    /\ relayWork' = "idle"
    /\ mainAccepted' = Append(mainAccepted, Last(relayProcessed))
    /\ UNCHANGED <<main, relay, relayArrived, relayProcessed, mainSent, upVars>>

MainWrite ==
    /\ main = "up" /\ Waiting(mainAccepted, mainSent)
    /\ mainSent' = Passed(mainAccepted, mainSent)
    /\ UNCHANGED <<main, relay, relayArrived, relayProcessed, mainAccepted, relayWork, upVars>>

-----------------------------------------------------------------------------
(* The ends of the sessions.                                               *)

\* The peer closes, a write fails or a receive fails: Disconnect closes the socket,
MainCloses ==
    /\ main = "up" /\ main' = "closing"
    /\ UNCHANGED <<relay, upVars, downVars>>

RelayCloses ==
    /\ relay = "up" /\ relay' = "closing"
    /\ UNCHANGED <<main, upVars, downVars>>

\* and clears Connected.
MainDisconnected ==
    /\ main = "closing" /\ main' = "down"
    /\ UNCHANGED <<relay, upVars, downVars>>

RelayDisconnected ==
    /\ relay = "closing" /\ relay' = "down"
    /\ UNCHANGED <<main, upVars, downVars>>

Up   == MainTake \/ MainDisconnect \/ RelaySendTest \/ RelaySendPost \/ RelayWrite
Down == RelayTake \/ MainSendPost \/ MainWrite

Next ==
    \/ MainReceive \/ RelayReceive \/ Up \/ Down
    \/ MainCloses \/ RelayCloses \/ MainDisconnected \/ RelayDisconnected

Spec == Init /\ [][Next]_vars

\* The work items of both clients, and Disconnect once it is begun, run on.
Fairness ==
    /\ WF_vars(MainTake \/ MainDisconnect \/ RelaySendTest \/ RelaySendPost)
    /\ WF_vars(RelayWrite)
    /\ WF_vars(RelayTake \/ MainSendPost)
    /\ WF_vars(MainWrite)
    /\ WF_vars(MainDisconnected) /\ WF_vars(RelayDisconnected)

FairSpec == Spec /\ Fairness

-----------------------------------------------------------------------------
TypeOK ==
    /\ main \in {"up", "closing", "down"} /\ relay \in {"up", "closing", "down"}
    /\ \A s \in {mainArrived, mainProcessed, relayAccepted, relaySent,
                 relayArrived, relayProcessed, mainAccepted, mainSent} : s \in Seq(Chunks)
    /\ mainWork \in {"idle", "disconnect", "send", "post"}
    /\ relayWork \in {"idle", "post"}

\* Each direction, end to end, is again a Pipe, which breaks with the connection it
\* writes to and with nothing else: what was sent before the sender closed arrives.
UpPipe   == INSTANCE Pipe WITH Message <- Chunks, taken <- mainArrived,
                given <- relaySent, broken <- relay # "up"
DownPipe == INSTANCE Pipe WITH Message <- Chunks, taken <- relayArrived,
                given <- mainSent, broken <- main # "up"

BothArePipes == UpPipe!Spec /\ DownPipe!Spec

\* A packet is dropped only when the other side is down.
DropNeedsDown ==
    /\ mainWork = "idle" /\ Len(relayAccepted) < Len(mainProcessed) => relay = "down"
    /\ relayWork = "idle" /\ Len(mainAccepted) < Len(relayProcessed) => main = "down"

\* The application learns that the destination is gone when it sends once more.
HalfOpenEnds ==
    relay = "down" /\ Len(mainProcessed) < Len(mainArrived) ~> main = "down"

=============================================================================
