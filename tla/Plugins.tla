------------------------------ MODULE Plugins -------------------------------
(***************************************************************************)
(* The plugins: the list in the main window, which is filled again each    *)
(* time the window raises Loaded (PluginsHelper.cs, MainWindow.xaml.cs),   *)
(* and a PluginHandler, which runs a plugin on a thread and in an          *)
(* AppDomain of its own and can stop it (PluginHandler.cs,                 *)
(* AssemblyLoader.cs).  The list LaunchedPlugins is returned by value to   *)
(* the plugin's domain, so that adding to it there changes nothing.        *)
(***************************************************************************)
EXTENDS Naturals, Sequences, SequencesExt

CONSTANTS
    Files,          \* the files in the directory Plugins
    MaxLoads,       \* bound: Loaded events of the main window
    MaxLaunches     \* bound: calls of Launch

VARIABLES
    pluginsList,    \* the field of PluginsHelper
    items,          \* pluginListItems
    loads,          \* how often the window was loaded
    foundBy,        \* history: the files that each load has found
    listedAt,       \* history: for each of items, the load that has listed it
    window,         \* "up", or "crashed" by an exception of FetchPlugins
    IsLoaded,       \* the fields of the PluginHandler
    thread,         \* 0 for null, or the last thread
    pc,             \* each thread: "none", its next step, or "ended"
    aborted,        \* the threads of which Abort has been called
    stopped,        \* history: threads that ran the plugin when Stop was called
    lost            \* history: threads replaced by a later Launch before Stop aborted them

listing == <<pluginsList, items, loads, foundBy, listedAt, window>>
handler == <<IsLoaded, thread, pc, aborted, stopped, lost>>
vars == <<listing, handler>>

Threads == 1..MaxLaunches

Init ==
    /\ pluginsList = {} /\ items = << >> /\ loads = 0 /\ window = "up"
    /\ foundBy = << >> /\ listedAt = << >>
    /\ IsLoaded = FALSE /\ thread = 0
    /\ pc = [t \in Threads |-> "none"]
    /\ aborted = {} /\ stopped = {} /\ lost = {}

-----------------------------------------------------------------------------
\* Faulty variant: what was found before is forgotten at once.
Fresh_All(valid) == valid

\* IsPluginValid(file) && !pluginsList.Contains(file).
Fresh(valid) == valid \ pluginsList

\* UpdatePluginsList: pluginsList is replaced by what FetchPlugins has found, "valid" being
\* the files with a plugin in them, or the empty set if reading the directory fails.
UpdatePluginsList ==
    /\ window = "up" /\ loads < MaxLoads
    /\ \E valid \in SUBSET Files :
          LET new == SetToSeq(Fresh(valid)) IN
          /\ pluginsList' = Fresh(valid)
          /\ items' = items \o new
          /\ foundBy' = Append(foundBy, valid)
          /\ listedAt' = listedAt \o [i \in 1..Len(new) |-> Len(foundBy) + 1]
    /\ loads' = loads + 1
    /\ UNCHANGED <<window, handler>>

\* No sandbox can be created; AppDomain.Unload of null or of the last domain, which has been
\* unloaded, throws out of the finally block and of the handler of Loaded.
SandboxFails ==
    /\ window = "up" /\ loads < MaxLoads
    /\ loads' = loads + 1 /\ window' = "crashed"
    /\ UNCHANGED <<pluginsList, items, foundBy, listedAt, handler>>

-----------------------------------------------------------------------------
\* The field forgets the thread of an earlier Launch, whatever that one does.
Launch ==
    /\ thread < MaxLaunches
    /\ thread' = thread + 1
    /\ pc' = [pc EXCEPT ![thread'] = "load"]
    /\ lost' = lost \cup ({thread} \ (aborted \cup {0}))
    /\ UNCHANGED <<listing, IsLoaded, aborted, stopped>>

Step(t, from, to) == pc[t] = from /\ pc' = [pc EXCEPT ![t] = to]

\* The assembly is loaded, a type is found and its object made; or there is none, or an
\* exception.
Create(t) ==
    /\ \E to \in {"loaded", "ended"} : Step(t, "load", to)
    /\ UNCHANGED <<listing, IsLoaded, thread, aborted, stopped, lost>>

\* Faulty variant: the flag waits for the plugin to return.
SetLoaded_Late(t) ==
    /\ Step(t, "loaded", "run")
    /\ UNCHANGED <<listing, IsLoaded, thread, aborted, stopped, lost>>

SetLoaded(t) ==
    /\ Step(t, "loaded", "run")
    /\ IsLoaded' = TRUE
    /\ UNCHANGED <<listing, thread, aborted, stopped, lost>>

\* PluginRun returns; it may also run for ever.
PluginReturns(t) ==
    /\ Step(t, "run", "ended")
    /\ UNCHANGED <<listing, IsLoaded, thread, aborted, stopped, lost>>

\* The ThreadAbortException, at whatever step the thread is.
Aborted(t) ==
    /\ t \in aborted /\ pc[t] \notin {"none", "ended"}
    /\ pc' = [pc EXCEPT ![t] = "ended"]
    /\ UNCHANGED <<listing, IsLoaded, thread, aborted, stopped, lost>>

\* Stop aborts the last thread, and none before IsLoaded, which no code resets.
Stop ==
    /\ thread # 0
    /\ aborted' = IF IsLoaded THEN aborted \cup {thread} ELSE aborted
    /\ stopped' = stopped \cup {t \in Threads : pc[t] = "run"}
    /\ UNCHANGED <<listing, IsLoaded, thread, pc, lost>>

LoadAssembly(t) == Create(t) \/ SetLoaded(t) \/ PluginReturns(t)

Next ==
    \/ UpdatePluginsList \/ SandboxFails
    \/ Launch \/ Stop \/ \E t \in Threads : LoadAssembly(t) \/ Aborted(t)

Spec == Init /\ [][Next]_vars

\* A thread that is aborted comes to an end.
Fairness == \A t \in Threads : WF_vars(Aborted(t))

FairSpec == Spec /\ Fairness

-----------------------------------------------------------------------------
\* The entries of one plugin in the list are from loads at least two apart, so that no two
\* loads in a row list it; each entry was found by the load it is from, and what a load has
\* found is listed by that load or was by the one before (PluginsHelper.cs:23 and 60).
ListedEverySecondTime ==
    /\ \A i, j \in DOMAIN items : i < j /\ items[i] = items[j] => listedAt[i] + 1 < listedAt[j]
    /\ \A i \in DOMAIN items : items[i] \in foundBy[listedAt[i]]
    /\ \A n \in DOMAIN foundBy : \A p \in foundBy[n] :
          \E i \in DOMAIN items : items[i] = p /\ listedAt[i] \in {n - 1, n}

\* Every thread that runs the plugin when Stop is called comes to its end, though no thread
\* but its own knows where it is, unless a Launch has replaced it: such a thread, which Stop
\* had not aborted, is out of the reach of every later Stop (PluginHandler.cs:25-32).
StopEnds ==
    \A t \in Threads :
        /\ t \in stopped ~> (pc[t] = "ended" \/ t \in lost)
        /\ [](t \in lost => t \notin aborted)

=============================================================================
