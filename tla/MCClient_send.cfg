\* Two senders, three send work items (a third is needed while one of two is
\* still in SendCleanup), three packets, and a peer that may close.
CONSTANTS
    Opener = opener
    IO = io
    Senders = {s1, s2}
    SendPool = {p1, p2, p3}
    RecvPool = {r1}
    MaxSend = 3
    MaxRecv = 0
SYMMETRY Symmetry
SPECIFICATION Spec
CHECK_DEADLOCK FALSE
INVARIANTS
    OneSendProcess
    NoSendLost
    FaultNeedsOverlap
    ConsistentAtRest
