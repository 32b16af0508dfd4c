------------------------------ MODULE MCRelay -------------------------------
(***************************************************************************)
(* Model checking a proxied connection: ClientMain as far as the handshake *)
(* is concerned, and the two sessions behind it.  The two modules share no *)
(* state, and each behaviour is one of one module.                         *)
(***************************************************************************)
EXTENDS Handshake

CONSTANT MaxChunks

VARIABLES
    part,                                                       \* the module
    main, relaySession,                                         \* of RelaySession
    mainArrived, mainProcessed, relayAccepted, relaySent,
    relayArrived, relayProcessed, mainAccepted, mainSent,
    mainWork, relayWork

Session == INSTANCE RelaySession WITH relay <- relaySession

ASSUME SessionAssumption == Session!ChunksAssumption

sessionVars == <<main, relaySession, mainArrived, mainProcessed, relayAccepted, relaySent,
                 relayArrived, relayProcessed, mainAccepted, mainSent, mainWork, relayWork>>

RelayInit == part \in {"handshake", "session"} /\ Init /\ Session!Init

RelayNext ==
    \/ part = "handshake" /\ Next /\ UNCHANGED <<part, sessionVars>>
    \/ part = "session" /\ Session!Next /\ UNCHANGED <<part, vars>>

\* The fairness of each module; of the other nothing is enabled.
RelaySpec ==
    RelayInit /\ [][RelayNext]_<<part, vars, sessionVars>> /\ Fairness /\ Session!Fairness

\* RelaySession's properties, stated there.
BothArePipes == Session!BothArePipes
HalfOpenEnds == Session!HalfOpenEnds

=============================================================================
