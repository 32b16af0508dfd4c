\* handshake: up to 14 bytes in chunks of up to 9: every way to cut the header, with and
\* without application data behind it in the same chunk, and three attempts.
\* session: three chunks from each end, and either side closing at any moment.
CONSTANTS
    MaxChunk = 9
    MaxBytes = 14
    MaxAttempts = 3
    MaxChunks = 3
SPECIFICATION RelaySpec
CHECK_DEADLOCK FALSE
INVARIANTS
    PayloadForwarded
    CrashNeedsFailure
PROPERTIES
    CallReturns
    BothArePipes
    HalfOpenEnds
