\* frame: 256 addresses, 12 ports (14597 is 1337 with its bytes swapped), both protocols.
\* stack: every hook.  patch: DWORDs of 5 bits.  connect: two threads and three calls, an
\* overlapping pair with a third call after it, and three calls one after the other.
CONSTANTS
    Addresses <- MCAddresses
    Ports <- MCPorts
    Hooks <- AllHooks
    Below <- EightWords
    Callers = {c1}
    Half = 32
    Size = 12
    Boundaries <- MCBoundaries
    Layouts <- MCLayouts
    Threads = {t1, t2}
    Address = {proxy, here, far}
    Local = {proxy, here}
    Proxy = proxy
    MaxCalls = 3
SYMMETRY Symmetry
SPECIFICATION HooksSpec
CHECK_DEADLOCK FALSE
INVARIANTS
    AddressArrives
    HookIsTransparent
    HookedOnce
    AloneIsServed
    LostNeedsOverlap
