------------------------------- MODULE Replay -------------------------------
(***************************************************************************)
(* TCP packets that a user of the packet editor sends once more            *)
(* (PacketEditor.xaml.cs:170-187, 242-259), while the connections they     *)
(* came from go on, fail and are followed by others.  A packet that was    *)
(* listed as the client's goes to the relay that its ClientMain has now;   *)
(* one listed as the server's goes to the first client whose ID is that of *)
(* the relay it came from.  IDs are drawn at random and clients are never  *)
(* taken off the list before the server ends.                              *)
(*                                                                         *)
(* A packet is its number in the list.  Every packet is captured (Capture  *)
(* has the switch and the UI thread), and Send is accepted or not (Client  *)
(* has its queue).  Datagrams are in UdpServer.                            *)
(***************************************************************************)
EXTENDS Naturals, Sequences, SequencesExt, FiniteSets

CONSTANTS
    Mains,          \* ClientMain objects
    IDs,            \* what Random().Next can return
    MaxRelays,      \* bound: ClientRelay objects
    MaxPackets,     \* bound: packets captured
    MaxReplays      \* bound: packets sent once more

VARIABLES
    clients,        \* Server.Clients
    ID,             \* of each ClientMain, 0 before there is one
    mainConnected,  \* ClientMain.Connected
    Relay,          \* the field Relay of each ClientMain: 0 is null
    handshakeComplete,
    relays,         \* the ClientRelay objects: their parent, and Connected
    models,         \* packetsListItems: from, a client object; source, as classified
    readBuffers,    \* from each client object to the packets it has yet to process
    sent            \* history: what each client object's Send accepted, and "relayed" or "replayed"

objects == <<clients, ID, mainConnected, Relay, handshakeComplete, relays>>
vars == <<objects, models, readBuffers, sent>>

\* Client objects; the number of the relay says whose it is.
MainOf(c)  == <<c, 0>>
RelayOf(c, r) == <<c, r>>
Objects == {MainOf(c) : c \in Mains} \cup {RelayOf(c, r) : c \in Mains, r \in 1..MaxRelays}

Connected(o) == IF o[2] = 0 THEN mainConnected[o[1]]
                ELSE o[2] \in DOMAIN relays /\ relays[o[2]].parent = o[1] /\ relays[o[2]].connected

Init ==
    /\ clients = << >>
    /\ ID = [c \in Mains |-> 0]
    /\ mainConnected = [c \in Mains |-> FALSE]
    /\ Relay = [c \in Mains |-> 0]
    /\ handshakeComplete = [c \in Mains |-> FALSE]
    /\ relays = << >> /\ models = << >>
    /\ readBuffers = [o \in Objects |-> << >>]
    /\ sent = [o \in Objects |-> << >>]

-----------------------------------------------------------------------------
\* The constructor of ClientMain, and Server.AddClient.
AddClient(c) ==
    /\ ID[c] = 0
    /\ \E n \in IDs : ID' = [ID EXCEPT ![c] = n]
    /\ mainConnected' = [mainConnected EXCEPT ![c] = TRUE]
    /\ clients' = Append(clients, c)
    /\ UNCHANGED <<Relay, handshakeComplete, relays, models, readBuffers, sent>>

\* Server.Disconnect forgets the clients and leaves them connected.
ServerDisconnect ==
    /\ clients # << >>
    /\ clients' = << >>
    /\ UNCHANGED <<ID, mainConnected, Relay, handshakeComplete, relays, models, readBuffers, sent>>

\* A packet is received and listed (NetworkManager.Server_ClientRecv takes it for the
\* client's exactly if it comes from 127.0.0.1, where "local" says it does), and put into
\* readBuffers.
Receive(o, local) ==
    /\ Connected(o) /\ Len(models) < MaxPackets
    /\ models' = Append(models, [from |-> o, source |-> IF local THEN "Client" ELSE "Server"])
    /\ readBuffers' = [readBuffers EXCEPT ![o] = Append(@, Len(models) + 1)]
    /\ UNCHANGED <<objects, sent>>

\* Client.Send.
Send(o, n, how) == sent' = IF Connected(o) THEN [sent EXCEPT ![o] = Append(@, <<n, how>>)] ELSE sent

Take(o) == readBuffers' = [readBuffers EXCEPT ![o] = Tail(@)]

\* ClientMain.AsyncRecvProcess of a packet that has the header in it (Handshake has the
\* divisions of the stream): ConnectRelay makes a new ClientRelay, connected or not.
ConnectRelay(c, up) ==
    /\ readBuffers[MainOf(c)] # << >> /\ ~handshakeComplete[c]
    /\ Len(relays) < MaxRelays
    /\ relays' = Append(relays, [parent |-> c, connected |-> up])
    /\ Relay' = [Relay EXCEPT ![c] = Len(relays) + 1]
    /\ handshakeComplete' = [handshakeComplete EXCEPT ![c] = up]
    /\ Take(MainOf(c))
    /\ UNCHANGED <<clients, ID, mainConnected, models, sent>>

Current(c) == RelayOf(c, Relay[c])

\* A later packet; the connection ends if its relay has.
Forward(c) ==
    /\ readBuffers[MainOf(c)] # << >> /\ handshakeComplete[c]
    /\ IF Connected(Current(c))
       THEN Send(Current(c), Head(readBuffers[MainOf(c)]), "relayed") /\ UNCHANGED mainConnected
       ELSE mainConnected' = [mainConnected EXCEPT ![c] = FALSE] /\ UNCHANGED sent
    /\ Take(MainOf(c))
    /\ UNCHANGED <<clients, ID, Relay, handshakeComplete, relays, models>>

\* ClientRelay.AsyncRecvProcess.
Answer(o) ==
    /\ o[2] # 0 /\ readBuffers[o] # << >>
    /\ Send(MainOf(o[1]), Head(readBuffers[o]), "relayed")
    /\ Take(o)
    /\ UNCHANGED <<objects, models>>

\* Client.Disconnect, by the peer.
Lose(o) ==
    /\ Connected(o)
    /\ IF o[2] = 0
       THEN mainConnected' = [mainConnected EXCEPT ![o[1]] = FALSE] /\ UNCHANGED relays
       ELSE relays' = [relays EXCEPT ![o[2]].connected = FALSE] /\ UNCHANGED mainConnected
    /\ UNCHANGED <<clients, ID, Relay, handshakeComplete, models, readBuffers, sent>>

-----------------------------------------------------------------------------
(* The packet editor, on the UI thread.                                    *)

Replays == {e \in Objects \X (1..MaxPackets + MaxReplays) :
                e[2] \in DOMAIN sent[e[1]] /\ sent[e[1]][e[2]][2] = "replayed"}

\* Faulty variant: the first client that is still connected.
FirstOrDefault_Connected(c) ==
    {i \in DOMAIN clients : /\ mainConnected[clients[i]]
                            /\ \A j \in 1..i - 1 : ~mainConnected[clients[j]]}

\* Where the first client is that has the ID of c, which its relays have too; none if there
\* is no such client.
FirstOrDefault(c) ==
    {i \in DOMAIN clients : /\ ID[clients[i]] = ID[c]
                            /\ \A j \in 1..i - 1 : ID[clients[j]] # ID[c]}

\* A null ClientRelay has no ID, and a null ClientMain, or a null Relay, is an exception
\* that ReplayPacket_Click catches.
SendPacketByModel(n) ==
    /\ \/ /\ models[n].source = "Server" /\ models[n].from[2] # 0
          /\ \E i \in FirstOrDefault(models[n].from[1]) : Send(MainOf(clients[i]), n, "replayed")
       \/ /\ models[n].source = "Client" /\ models[n].from[2] = 0
          /\ Relay[models[n].from[1]] # 0
          /\ Send(Current(models[n].from[1]), n, "replayed")
    /\ UNCHANGED <<objects, models, readBuffers>>

ReplayPacket == \E n \in DOMAIN models : SendPacketByModel(n) /\ Cardinality(Replays) < MaxReplays

-----------------------------------------------------------------------------
Next ==
    \/ \E c \in Mains : AddClient(c) \/ Forward(c) \/ \E up \in BOOLEAN : ConnectRelay(c, up)
    \/ \E o \in Objects : Answer(o) \/ Lose(o) \/ \E local \in BOOLEAN : Receive(o, local)
    \/ ServerDisconnect
    \/ ReplayPacket

Spec == Init /\ [][Next]_vars

-----------------------------------------------------------------------------
From(n) == models[n].from

\* A packet ends up at the other side of the connection it was part of, also when it is
\* replayed after a failed or a second relay, and no packet of the editor's gets from one
\* side of a connection to the same side.  Only a replayed answer can be given to another
\* connection's client, and then one with the same ID as its own.
StaysInConnection ==
    \A o \in Objects : \A i \in DOMAIN sent[o] :
        LET n == sent[o][i][1] IN
        /\ (From(n)[2] = 0) # (o[2] = 0)
        /\ \/ From(n)[1] = o[1]
           \/ sent[o][i][2] = "replayed" /\ o[2] = 0 /\ ID[o[1]] = ID[From(n)[1]]

=============================================================================
