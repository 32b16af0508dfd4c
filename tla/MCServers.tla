----------------------------- MODULE MCServers ------------------------------
(***************************************************************************)
(* Model checking the two servers of the process, UdpServer, whose         *)
(* endpoints are interchangeable, and Server, whose connections are.  They *)
(* share no state, and each behaviour is one of one module.                *)
(***************************************************************************)
EXTENDS UdpServer, TLC

CONSTANTS
    Clients, NoClient, Closers, MaxReceived, MaxResets

VARIABLES
    part,                                                           \* the module
    pc, accepting, socket, tcpListening, resets, clients, session,  \* of Server
    recvHandlers, stateHandler, accepted, io, recvReported, sendReported, stateReported,
    span, early, connected, closing, doubled

Tcp == INSTANCE Server WITH listening <- tcpListening, received <- accepted, MaxPackets <- MaxReceived

tcpVars == <<pc, accepting, socket, tcpListening, resets, clients, session, recvHandlers,
             stateHandler, accepted, io, recvReported, sendReported, stateReported, span, early,
             connected, closing, doubled>>

ServersInit == part \in {"udp", "tcp"} /\ Init /\ Tcp!Init

ServersNext ==
    \/ part = "udp" /\ Next /\ UNCHANGED <<part, tcpVars>>
    \/ part = "tcp" /\ Tcp!Next /\ UNCHANGED <<part, vars>>

ServersSpec == ServersInit /\ [][ServersNext]_<<part, vars, tcpVars>>

\* Server's property, stated there.
EventsAreReported == Tcp!EventsAreReported

\* (One endpoint is left out: with all of them it takes longer to permute a state of Server
\* than is saved.)
Symmetry ==
    Permutations(Peers \ {CHOOSE p \in Peers : TRUE})
    \cup Permutations(Clients) \cup Permutations(Closers)

=============================================================================
