\* udp: four endpoints and four datagrams: two disjoint pairs, a pair that is linked again
\* crosswise, an endpoint linked to itself, and a replay between the steps of AddLink.
\* tcp: two connections, and two packets, both on one or one on each: before, between and
\* after the steps of the registration and of the end of the server.  Two threads may
\* disconnect a session: its receive callback and the work item that sends.
CONSTANTS
    Peers = {a, b, c, d}
    MaxPackets = 4
    MaxReplays = 1
    Clients = {c1, c2}
    NoClient = NoClient
    Closers = {t1, t2}
    MaxReceived = 2
    MaxResets = 1
SYMMETRY Symmetry
SPECIFICATION ServersSpec
CHECK_DEADLOCK FALSE
INVARIANTS
    SentToPartner
    LatestPairLinked
    EventsAreReported
