------------------------------ MODULE MCEditor ------------------------------
(***************************************************************************)
(* Model checking what the user's windows do: the list of connections of a *)
(* packet editor, the packets it sends once more, and the plugins of the   *)
(* main window.  The three modules share no state, and each behaviour is   *)
(* one of one module.                                                      *)
(***************************************************************************)
EXTENDS ConnectionMonitor, FiniteSets

CONSTANTS Mains, IDs, MaxRelays, MaxPackets, MaxReplays, Files, MaxMainLoads, MaxLaunches

\* Replay has 0 for a client that there is not yet.
ASSUME RandomAssumption == 0 \notin IDs

\* Of the directory Plugins.
ASSUME FilesAssumption == IsFiniteSet(Files)

VARIABLES
    part,                                                               \* the module
    mains, ID, mainConnected, Relay, handshakeComplete, relays, models, readBuffers, sent, \* of Replay
    pluginsList, items, loads, foundBy, listedAt, mainWindow,             \* of Plugins
    IsLoaded, thread, threads, aborted, stopped, lost

Replaying == INSTANCE Replay WITH clients <- mains
Plugged == INSTANCE Plugins WITH window <- mainWindow, pc <- threads, MaxLoads <- MaxMainLoads

replayVars == <<mains, ID, mainConnected, Relay, handshakeComplete, relays, models, readBuffers, sent>>
pluginVars == <<pluginsList, items, loads, foundBy, listedAt, mainWindow, IsLoaded, thread, threads,
                aborted, stopped, lost>>

\* A window that is closed keeps its module still.
EditorInit ==
    /\ part \in {"monitor", "replay", "plugins"}
    /\ window = (IF part = "monitor" THEN "open" ELSE "closed") /\ Fresh
    /\ Replaying!Init /\ Plugged!Init

EditorNext ==
    \/ part = "monitor" /\ Next /\ UNCHANGED <<part, replayVars, pluginVars>>
    \/ part = "replay" /\ Replaying!Next /\ UNCHANGED <<part, vars, pluginVars>>
    \/ part = "plugins" /\ Plugged!Next /\ UNCHANGED <<part, vars, replayVars>>

EditorSpec ==
    /\ EditorInit /\ [][EditorNext]_<<part, vars, replayVars, pluginVars>>
    /\ Fairness
    /\ Plugged!Fairness

\* Replay's and Plugins' properties, stated there.
StaysInConnection     == Replaying!StaysInConnection
ListedEverySecondTime == Plugged!ListedEverySecondTime
StopEnds              == Plugged!StopEnds

=============================================================================
