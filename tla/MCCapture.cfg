\* The two sessions of a connection; a window and its successor; a clear and a
\* click on "capture", or the latter twice.
CONSTANTS
    Sessions = {app, remote}
    Local = {app}
    MaxPackets = 2
    MaxWindows = 2
    MaxClicks = 2
SPECIFICATION FairSpec
CHECK_DEADLOCK FALSE
INVARIANTS
    ListIsFaithful
    ListIsCausal
PROPERTY
    TrafficPasses
