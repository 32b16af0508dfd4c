\* monitor: two tasks whose rounds overlap; a connection that stays and one that goes.
\* replay: two clients that may have the same ID.  plugins: four loads, two launches.
CONSTANTS
    Connections = {c1, c2}
    MaxLoads = 2
    Mains = {m1, m2}
    IDs = {1, 2}
    MaxRelays = 2
    MaxPackets = 2
    MaxReplays = 1
    Files = {f1}
    MaxMainLoads = 4
    MaxLaunches = 2
SPECIFICATION EditorSpec
CHECK_DEADLOCK FALSE
INVARIANTS
    OneRowPerClient
    StaysInConnection
    ListedEverySecondTime
PROPERTIES
    RowsSettle
    MonitorEnds
    StopEnds
