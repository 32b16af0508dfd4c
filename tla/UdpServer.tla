----------------------------- MODULE UdpServer -----------------------------
(***************************************************************************)
(* Network/UdpServer.cs: one UDP socket through which every redirected     *)
(* datagram of the host program travels.  A datagram that starts with the  *)
(* opcode 1337 carries the address its sender wants to talk to, and links  *)
(* the two endpoints; any other datagram goes to the endpoint its sender   *)
(* is linked to.                                                           *)
(*                                                                         *)
(* AsyncRecvProcess runs in one work item at a time (Client!OneRecvProcess)*)
(* and holds the lock on links while it changes them.  The user interface  *)
(* (UI/PacketEditor.xaml.cs, SendPacketByModel) reads links without the    *)
(* lock, so AddLink is four steps here.                                    *)
(***************************************************************************)
EXTENDS Naturals, Sequences

CONSTANTS
    Peers,          \* endpoints; 0.0.0.0, of a truncated address, is one of them
    MaxPackets,     \* bound: datagrams received
    MaxReplays      \* bound: packets the user replays

ASSUME BoundsAssumption == MaxPackets \in Nat /\ MaxReplays \in Nat

VARIABLES
    listening,      \* Listening, and Connected of the underlying Client
    links,          \* a function from endpoints to endpoints
    asked,          \* the pairs AddLink was called with; the last is the one at hand
    worker,         \* the work item: "idle", "remove", "removeDest", "add", "addDest", "crash"
    sent,           \* history: the datagrams Send accepted, as <<sender, destination>>
    received,       \* number of datagrams received
    replays,        \* number of packets replayed
    replay          \* the UI thread: << >>, <<endpoint>> or <<endpoint, destination>>

vars == <<listening, links, asked, worker, sent, received, replays, replay>>

\* Dictionary.Remove, which also accepts a key that is not there, and Add.
Without(f, x) == [y \in DOMAIN f \ {x} |-> f[y]]
With(f, x, v) == [y \in DOMAIN f \cup {x} |-> IF y = x THEN v ELSE f[y]]

\* The two endpoints AddLink is linking.
Source == asked[Len(asked)][1]
Dest   == asked[Len(asked)][2]

Init ==
    /\ listening = TRUE
    /\ links = [x \in {} |-> x]
    /\ asked = << >>
    /\ worker = "idle"
    /\ sent = << >>
    /\ received = 0
    /\ replays = 0
    /\ replay = << >>

-----------------------------------------------------------------------------
(* AsyncRecvProcess and AddLink.                                           *)

Receive ==
    /\ worker = "idle"
    /\ received < MaxPackets
    /\ received' = received + 1

\* Any datagram that begins with the opcode is taken for an address, the ones
\* of a remote server included: AddLink(packet.EndPoint, destination).
LinkPacket(x, y) ==
    /\ Receive
    /\ asked' = Append(asked, <<x, y>>)
    /\ worker' = "remove"
    /\ UNCHANGED <<listening, links, sent, replays, replay>>

\* The opcode without a port behind it: GetDestPort throws, on a pool thread.
ShortLinkPacket ==
    /\ Receive
    /\ worker' = "crash"
    /\ UNCHANGED <<listening, links, asked, sent, replays, replay>>

RemoveSource ==
    /\ worker = "remove"
    /\ links' = Without(links, Source)
    /\ worker' = "removeDest"
    /\ UNCHANGED <<listening, asked, sent, received, replays, replay>>

RemoveDest ==
    /\ worker = "removeDest"
    /\ links' = Without(links, Dest)
    /\ worker' = "add"
    /\ UNCHANGED <<listening, asked, sent, received, replays, replay>>

AddSource ==
    /\ worker = "add"
    /\ links' = With(links, Source, Dest)
    /\ worker' = "addDest"
    /\ UNCHANGED <<listening, asked, sent, received, replays, replay>>

\* Faulty variant: the way back is only added if the sender is a new one.
AddDest_OnlyNew ==
    /\ worker = "addDest"
    /\ IF \E i \in 1..Len(asked) - 1 : asked[i][1] = Source
       THEN UNCHANGED links
       ELSE links' = With(links, Dest, Source)
    /\ worker' = "idle"
    /\ UNCHANGED <<listening, asked, sent, received, replays, replay>>

\* Dictionary.Add throws if the key is there, on a pool thread.
AddDest ==
    /\ worker = "addDest"
    /\ IF Dest \in DOMAIN links
       THEN UNCHANGED links /\ worker' = "crash"
       ELSE links' = With(links, Dest, Source) /\ worker' = "idle"
    /\ UNCHANGED <<listening, asked, sent, received, replays, replay>>

\* Faulty variant: the destination that was linked last instead of the sender's own.
DataPacket_LastDest(x) ==
    /\ Receive
    /\ IF x \in DOMAIN links /\ listening
       THEN sent' = Append(sent, <<x, Dest>>)
       ELSE UNCHANGED sent
    /\ UNCHANGED <<listening, links, asked, worker, replays, replay>>

\* Any other datagram goes to its sender's partner.  It is dropped if there is
\* none, or if Send finds the client disconnected.
DataPacket(x) ==
    /\ Receive
    /\ IF x \in DOMAIN links /\ listening
       THEN sent' = Append(sent, <<x, links[x]>>)
       ELSE UNCHANGED sent
    /\ UNCHANGED <<listening, links, asked, worker, replays, replay>>

AsyncRecvProcess ==
    \/ (\E x, y \in Peers : LinkPacket(x, y))
    \/ ShortLinkPacket
    \/ RemoveSource \/ RemoveDest \/ AddSource \/ AddDest
    \/ \E x \in Peers : DataPacket(x)

\* Disconnect, by any thread of the Client: nobody listens again.
StopListening ==
    /\ listening /\ worker # "crash"
    /\ listening' = FALSE
    /\ UNCHANGED <<links, asked, worker, sent, received, replays, replay>>

-----------------------------------------------------------------------------
(* SendPacketByModel for a captured UDP packet of endpoint x.              *)

\* links.ContainsKey(packet.EndPoint)
ReplayTest(x) ==
    /\ replay = << >> /\ worker # "crash"
    /\ replays < MaxReplays
    /\ replays' = replays + 1
    /\ replay' = IF x \in DOMAIN links THEN <<x>> ELSE << >>
    /\ UNCHANGED <<listening, links, asked, worker, sent, received>>

\* A packet of the client goes to the client's partner of this moment.  If the
\* key has been removed since the test, the indexer throws and Replay goes on.
ReplayClient ==
    /\ Len(replay) = 1 /\ worker # "crash"
    /\ replay' = IF replay[1] \in DOMAIN links THEN <<replay[1], links[replay[1]]>> ELSE << >>
    /\ UNCHANGED <<listening, links, asked, worker, sent, received, replays>>

\* A packet of the server goes to the endpoint it came from: to the server.
ReplayServer ==
    /\ Len(replay) = 1 /\ worker # "crash"
    /\ replay' = <<replay[1], replay[1]>>
    /\ UNCHANGED <<listening, links, asked, worker, sent, received, replays>>

ReplaySend ==
    /\ Len(replay) = 2 /\ worker # "crash"
    /\ sent' = IF listening THEN Append(sent, replay) ELSE sent
    /\ replay' = << >>
    /\ UNCHANGED <<listening, links, asked, worker, received, replays>>

SendPacketByModel ==
    (\E x \in Peers : ReplayTest(x)) \/ ReplayClient \/ ReplayServer \/ ReplaySend

Next == AsyncRecvProcess \/ StopListening \/ SendPacketByModel

Spec == Init /\ [][Next]_vars

-----------------------------------------------------------------------------
TypeOK ==
    /\ listening \in BOOLEAN
    /\ DOMAIN links \subseteq Peers
    /\ links \in [DOMAIN links -> Peers]
    /\ asked \in Seq(Peers \X Peers)
    /\ worker \in {"idle", "remove", "removeDest", "add", "addDest", "crash"}
    /\ worker \in {"remove", "removeDest", "add", "addDest"} => asked # << >>
    /\ sent \in Seq(Peers \X Peers)
    /\ received \in Nat /\ replays \in Nat
    /\ replay \in {<< >>} \cup {<<x>> : x \in Peers} \cup (Peers \X Peers)

Pair(i) == {asked[i][1], asked[i][2]}

Paired(x, y) == \E i \in 1..Len(asked) : Pair(i) = {x, y}

\* Whatever mixture of old and new links a reader without the lock finds, each
\* leads to a partner somebody asked for.
LinksArePairs == \A x \in DOMAIN links : Paired(x, links[x])

\* A datagram travels between partners only.  A replayed packet of the server is
\* the exception: it is sent to the server.
SentToPartner ==
    \A k \in 1..Len(sent) : sent[k][1] = sent[k][2] \/ Paired(sent[k][1], sent[k][2])

\* The latest request wins, in both directions: two endpoints stay linked to each
\* other until one of them is linked again, whatever is linked in between.
LatestPairLinked ==
    worker = "idle" =>
        \A i \in 1..Len(asked) :
            (\A j \in i + 1 .. Len(asked) : Pair(j) \cap Pair(i) = {}) =>
                /\ Pair(i) \subseteq DOMAIN links
                /\ links[asked[i][1]] = asked[i][2]
                /\ links[asked[i][2]] = asked[i][1]

\* Dictionary.Add finds its key taken only when an endpoint is linked to itself.
DuplicateKeyOnlySelf ==
    /\ worker = "add" => Source \notin DOMAIN links
    /\ worker = "addDest" /\ Dest \in DOMAIN links => Source = Dest

=============================================================================
