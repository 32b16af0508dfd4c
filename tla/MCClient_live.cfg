\* Two work items for each direction, and two packets; no symmetry, for liveness.
CONSTANTS
    Opener = opener
    IO = io
    Senders = {s1}
    SendPool = {p1, p2}
    RecvPool = {r1, r2}
    MaxSend = 2
    MaxRecv = 2
SPECIFICATION FairSpec
CHECK_DEADLOCK FALSE
INVARIANT
    NoRecvLost
PROPERTIES
    SendIsPipe
    RecvIsPipe
    CloseIsReported
