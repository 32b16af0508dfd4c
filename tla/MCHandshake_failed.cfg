\* The same instance, with the claim that a failed attempt refutes.
CONSTANTS
    MaxChunk = 9
    MaxBytes = 14
    MaxAttempts = 3
SPECIFICATION Spec
CHECK_DEADLOCK FALSE
INVARIANT
    EveryAttemptIsHeader
