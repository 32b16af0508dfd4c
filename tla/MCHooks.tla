------------------------------ MODULE MCHooks -------------------------------
(***************************************************************************)
(* Model checking what InjX86 and Mapping64 put into a program: how the    *)
(* hooks are installed, what they do to the stack, what they tell the      *)
(* proxy, and how the one on connect shares its globals among threads,     *)
(* which are interchangeable.  The four modules share no state, and each   *)
(* behaviour is one of one module.                                         *)
(***************************************************************************)
EXTENDS AddressFrame, ConnectHook, Integers, TLC

CONSTANTS Hooks, Below, Callers, Half, Size, Boundaries, Layouts

VARIABLES
    part,                                                           \* the module
    hook, ip, stack, word, target, called,                          \* of HookStack
    at, memory, funcTramp, stage, todo, saved, caller, at_ip, did, when    \* of Detour

Stack  == INSTANCE HookStack
Patch  == INSTANCE Detour WITH ip <- at_ip

-----------------------------------------------------------------------------
(* What HookFunc counts on.                                                *)

\* The moved bytes, and the jump behind them or the byte that stands for it.
TrampolineSize(l) == IF l.x64 THEN 11 ELSE 10

\* The function, its trampoline, which is memory of its own, and the hook are apart; and the
\* bytes that are moved end where an instruction does.
Apart(l) ==
    /\ l \in [func : 0..Patch!Words - 1, hook : 0..Patch!Words - 1, tramp : 0..Patch!Words - 1,
              x64 : BOOLEAN]
    /\ Patch!len(l) \in Patch!Starts /\ TrampolineSize(l) <= Patch!Words
    /\ \A k \in 0..Size - 1 :
          /\ (l.func + k) % Patch!Words # l.hook
          /\ \A i \in 0..TrampolineSize(l) - 1 :
                (l.func + k) % Patch!Words # (l.tramp + i) % Patch!Words
    /\ \A i \in 0..TrampolineSize(l) - 1 : (l.tramp + i) % Patch!Words # l.hook

ASSUME LayoutAssumption ==
    /\ Half \in Nat \ {0}
    /\ Size \in 1..Patch!Words
    /\ Boundaries \in Seq(0..Size - 1) /\ Boundaries # << >> /\ Boundaries[1] = 0
    /\ \A i, j \in 1..Len(Boundaries) : i < j => Boundaries[i] < Boundaries[j]
    /\ \A l \in Layouts : Apart(l)

-----------------------------------------------------------------------------
(* Values of the constants.                                                *)

MCBytes     == {0, 1, 128, 255}
MCAddresses == MCBytes \X MCBytes \X MCBytes \X MCBytes
MCPorts     == {0, 1, 127, 128, 255, 256, 1337, 8089, 14597, 32767, 32768, 65535}

AllHooks ==
    {"hookConnect", "hookWSAConnect", "hookBind", "hookSocket", "hookBindLog", "hookWSARecv",
     "hookWSASend", "hookAccept", "hookListen", "hookWSAAccept", "hookSend", "hookRecv",
     "hookSetInfoThread", "asm_hook_connect", "asm_hook_wsaconnect"}

\* Eight words of the application's frame: more than any hook could take by mistake.
EightWords == <<"frame1", "frame2", "frame3", "frame4", "frame5", "frame6", "frame7", "frame8">>

\* Instructions of two and three bytes; the hook near the function on either side and far
\* away, the trampoline before and behind it, the function also at the end of memory and
\* where the lower half of its address has its sign bit set.
MCBoundaries == <<0, 2, 3, 5, 7, 10>>
MCLayouts ==
    {[func |-> f, hook |-> (f + h) % 1024, tramp |-> t, x64 |-> x] :
        f \in {100, 528, 1020}, h \in {16, 300, -8}, t \in {700, 980}, x \in BOOLEAN}

-----------------------------------------------------------------------------
Parts == {"frame", "stack", "patch", "connect"}

\* All of a set for its own part, and any one element for the others.
OnlyIn(p, S) == IF part = p THEN S ELSE {CHOOSE e \in S : TRUE}

HooksInit ==
    /\ part \in Parts
    /\ want \in OnlyIn("frame", EndPoint) /\ protocol \in OnlyIn("frame", {6, 17}) /\ FrameInit
    /\ hook \in OnlyIn("stack", Hooks) /\ Stack!Init
    /\ at \in OnlyIn("patch", Layouts) /\ Patch!Init
    /\ Init

stackVars == <<hook, ip, stack, word, target, called>>
patchVars == <<at, memory, funcTramp, stage, todo, saved, caller, at_ip, did, when>>

HooksNext ==
    \/ part = "frame" /\ FrameNext /\ UNCHANGED <<part, stackVars, patchVars, vars>>
    \/ part = "stack" /\ Stack!Next /\ UNCHANGED <<part, frameVars, patchVars, vars>>
    \/ part = "patch" /\ Patch!Next /\ UNCHANGED <<part, frameVars, stackVars, vars>>
    \/ part = "connect" /\ Next /\ UNCHANGED <<part, frameVars, stackVars, patchVars>>

HooksSpec == HooksInit /\ [][HooksNext]_<<part, frameVars, stackVars, patchVars, vars>>

\* HookStack's and Detour's properties, stated there.
HookIsTransparent == Stack!HookIsTransparent
HookedOnce      == Patch!HookedOnce

Symmetry == Permutations(Threads)

=============================================================================
