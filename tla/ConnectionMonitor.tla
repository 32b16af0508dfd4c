------------------------- MODULE ConnectionMonitor --------------------------
(***************************************************************************)
(* The list of connections in a window of the packet editor.  Each time    *)
(* the window raises Loaded (WPF may do so again, for instance when the    *)
(* theme changes) a task starts that, until the window is closed, compares *)
(* Server.Clients with the rows.  A round of it copies the clients under   *)
(* their lock, keeps those that are Connected, reading one after the       *)
(* other, and updates the rows on the UI thread, where Connected is read   *)
(* once more.  Meanwhile connections come and go.                          *)
(***************************************************************************)
EXTENDS Naturals, Sequences, SequencesExt

CONSTANTS
    Connections,
    MaxLoads        \* bound: Loaded events of the window

ASSUME MonitorAssumption == MaxLoads \in Nat \ {0}

Tasks == 1..MaxLoads

VARIABLES
    clients,        \* Server.Clients
    connected,      \* "new", "up" (Connected) or "down"
    window,         \* "open" or "closed"
    source,         \* the fields tokenSource and token, as the number of the load; 0 is null
    cancelled,      \* the token sources on which Cancel was called
    pc,             \* each task: "none", "queued", "test", "filter", "invoke", "add", "remove"
                    \* or "ended"
    todo,           \* what it has still to look at: clients, those found, then rows
    found,          \* its local "clients"
    connList,       \* its local copy of the rows, until it looks at them
    rows            \* connectionsListItems

network == <<clients, connected>>
tasks == <<pc, todo, found, connList>>
vars == <<network, window, source, cancelled, tasks, rows>>

\* No connection, no task and no row yet.
Fresh ==
    /\ clients = << >>
    /\ connected = [c \in Connections |-> "new"]
    /\ source = 0 /\ cancelled = {}
    /\ pc = [t \in Tasks |-> "none"]
    /\ todo = [t \in Tasks |-> << >>]
    /\ found = [t \in Tasks |-> << >>]
    /\ connList = [t \in Tasks |-> << >>]
    /\ rows = << >>

Init == window = "open" /\ Fresh

-----------------------------------------------------------------------------
(* The server and its clients.                                             *)

\* Server.AddClient of a session that is open.
AddClient(c) ==
    /\ connected[c] = "new"
    /\ connected' = [connected EXCEPT ![c] = "up"]
    /\ clients' = Append(clients, c)
    /\ UNCHANGED <<window, source, cancelled, tasks, rows>>

\* Client.OnClientState(false); the client stays in the list.
Lose(c) ==
    /\ connected[c] = "up"
    /\ connected' = [connected EXCEPT ![c] = "down"]
    /\ UNCHANGED <<clients, window, source, cancelled, tasks, rows>>

\* Server.Disconnect forgets the clients and leaves them connected.
ServerDisconnect ==
    /\ clients # << >>
    /\ clients' = << >>
    /\ UNCHANGED <<connected, window, source, cancelled, tasks, rows>>

-----------------------------------------------------------------------------
(* The window, on the UI thread.                                           *)

UIFree == \A t \in Tasks : pc[t] \notin {"add", "remove"}

Loaded ==
    /\ UIFree /\ window = "open" /\ source < MaxLoads
    /\ source' = source + 1
    /\ pc' = [pc EXCEPT ![source'] = "queued"]
    /\ UNCHANGED <<network, window, cancelled, todo, found, connList, rows>>

Closed ==
    /\ UIFree /\ window = "open" /\ source # 0
    /\ window' = "closed"
    /\ cancelled' = cancelled \cup {source}
    /\ UNCHANGED <<network, source, tasks, rows>>

-----------------------------------------------------------------------------
(* The tasks.                                                              *)

\* Task.Run does not start a task whose token, the one it was given, is cancelled.
Start(t) ==
    /\ pc[t] = "queued"
    /\ pc' = [pc EXCEPT ![t] = IF t \in cancelled THEN "ended" ELSE "test"]
    /\ UNCHANGED <<network, window, source, cancelled, todo, found, connList, rows>>

\* Faulty variant: a task tests the token it was started with.
Test_OwnToken(t) ==
    /\ pc[t] = "test"
    /\ IF t \in cancelled
       THEN pc' = [pc EXCEPT ![t] = "ended"] /\ UNCHANGED <<todo, found>>
       ELSE /\ pc' = [pc EXCEPT ![t] = "filter"]
            /\ todo' = [todo EXCEPT ![t] = clients]
            /\ found' = [found EXCEPT ![t] = << >>]
    /\ UNCHANGED <<network, window, source, cancelled, connList, rows>>

\* The loop and ThrowIfCancellationRequested test the field "token", which a later
\* Loaded has replaced; if all is well the clients are copied.
Test(t) ==
    /\ pc[t] = "test"
    /\ IF source \in cancelled
       THEN pc' = [pc EXCEPT ![t] = "ended"] /\ UNCHANGED <<todo, found>>
       ELSE /\ pc' = [pc EXCEPT ![t] = "filter"]
            /\ todo' = [todo EXCEPT ![t] = clients]
            /\ found' = [found EXCEPT ![t] = << >>]
    /\ UNCHANGED <<network, window, source, cancelled, connList, rows>>

\* Where(x => x.Connected).
Filter(t) ==
    /\ pc[t] = "filter"
    /\ IF todo[t] = << >>
       THEN /\ pc' = [pc EXCEPT ![t] = "invoke"]
            /\ UNCHANGED <<todo, found>>
       ELSE /\ todo' = [todo EXCEPT ![t] = Tail(@)]
            /\ found' = [found EXCEPT ![t] =
                            IF connected[Head(todo[t])] = "up" THEN Append(@, Head(todo[t])) ELSE @]
            /\ pc' = pc
    /\ UNCHANGED <<network, window, source, cancelled, connList, rows>>

\* Invoke, on the UI thread: a copy of the rows,
Invoke(t) ==
    /\ UIFree /\ pc[t] = "invoke"
    /\ pc' = [pc EXCEPT ![t] = "add"]
    /\ todo' = [todo EXCEPT ![t] = found[t]]
    /\ connList' = [connList EXCEPT ![t] = rows]
    /\ UNCHANGED <<network, window, source, cancelled, found, rows>>

\* Faulty variant: the copy of the rows is not searched for the client.
AddRows_All(t) ==
    /\ pc[t] = "add"
    /\ IF todo[t] = << >>
       THEN /\ pc' = [pc EXCEPT ![t] = "remove"]
            /\ todo' = [todo EXCEPT ![t] = connList[t]]
            /\ connList' = [connList EXCEPT ![t] = << >>]
            /\ rows' = rows
       ELSE /\ todo' = [todo EXCEPT ![t] = Tail(@)]
            /\ rows' = Append(rows, Head(todo[t]))
            /\ UNCHANGED <<pc, connList>>
    /\ UNCHANGED <<network, window, source, cancelled, found>>

\* a row for every client that has none in the copy, and then, for the rows of the copy,
AddRows(t) ==
    /\ pc[t] = "add"
    /\ IF todo[t] = << >>
       THEN /\ pc' = [pc EXCEPT ![t] = "remove"]
            /\ todo' = [todo EXCEPT ![t] = connList[t]]
            /\ connList' = [connList EXCEPT ![t] = << >>]
            /\ rows' = rows
       ELSE /\ todo' = [todo EXCEPT ![t] = Tail(@)]
            /\ LET c == Head(todo[t])
               IN  rows' = IF Contains(connList[t], c) THEN rows ELSE Append(rows, c)
            /\ UNCHANGED <<pc, connList>>
    /\ UNCHANGED <<network, window, source, cancelled, found>>

\* Faulty variant: a client that the server has forgotten keeps its row.
RemoveRows_LostOnly(t) ==
    /\ pc[t] = "remove"
    /\ IF todo[t] = << >>
       THEN /\ pc' = [pc EXCEPT ![t] = "test"]
            /\ UNCHANGED <<todo, rows>>
       ELSE /\ todo' = [todo EXCEPT ![t] = Tail(@)]
            /\ LET c == Head(todo[t])
               IN  rows' = IF connected[c] = "up" THEN rows ELSE RemoveFirst(rows, c)
            /\ pc' = pc
    /\ UNCHANGED <<network, window, source, cancelled, found, connList>>

\* a row goes whose client was not found or has been lost since; at the end the task
\* sleeps for a second.
RemoveRows(t) ==
    /\ pc[t] = "remove"
    /\ IF todo[t] = << >>
       THEN /\ pc' = [pc EXCEPT ![t] = "test"]
            /\ UNCHANGED <<todo, rows>>
       ELSE /\ todo' = [todo EXCEPT ![t] = Tail(@)]
            /\ LET c == Head(todo[t])
               IN  rows' = IF Contains(found[t], c) /\ connected[c] = "up" THEN rows ELSE RemoveFirst(rows, c)
            /\ pc' = pc
    /\ UNCHANGED <<network, window, source, cancelled, found, connList>>

MonitorConnections(t) ==
    Start(t) \/ Test(t) \/ Filter(t) \/ Invoke(t) \/ AddRows(t) \/ RemoveRows(t)

Next ==
    \/ \E c \in Connections : AddClient(c) \/ Lose(c)
    \/ ServerDisconnect
    \/ Loaded \/ Closed
    \/ \E t \in Tasks : MonitorConnections(t)

Spec == Init /\ [][Next]_vars

\* Loaded is raised; the tasks run on, and the UI thread comes to what is posted to it.
Fairness ==
    /\ WF_vars(Loaded /\ source = 0)
    /\ \A t \in Tasks :
          /\ WF_vars(Start(t) \/ Test(t) \/ Filter(t) \/ AddRows(t) \/ RemoveRows(t))
          /\ SF_vars(Invoke(t))

FairSpec == Spec /\ Fairness

-----------------------------------------------------------------------------
\* Whatever tasks update the list, from copies of whatever age, a client has one row.
OneRowPerClient == IsInjective(rows)

\* If the window stays open, its rows are in the end the clients of the server that are
\* connected, and stay so.
RowsSettle ==
    <>[](window = "open") =>
        <>[](ToSet(rows) = {c \in ToSet(clients) : connected[c] = "up"})

\* A window that is closed is not monitored for ever, by none of its tasks.
MonitorEnds ==
    window = "closed" ~> \A t \in Tasks : pc[t] \in {"none", "ended"}

=============================================================================
