------------------------------- MODULE Detour --------------------------------
(***************************************************************************)
(* HookFunc (InjX86/InjX86/InjX86.cpp:738-777, Mapping64/Mapping64.cpp:    *)
(* 120-208): the first bytes of a function are moved to a trampoline and   *)
(* replaced by a jump to the hook, in a process whose threads may be in    *)
(* that function.  The hooks themselves are modelled in ConnectHook and    *)
(* HookStack; here a hook is an address that goes on to the trampoline.    *)
(*                                                                         *)
(* Addresses are numbers modulo Half * Half; a DWORD of the x64 code is a  *)
(* number modulo Half.  A byte in memory is what it is a byte of.  A       *)
(* thread fetches an instruction in one step.  memcpy writes its bytes in  *)
(* any order.                                                              *)
(***************************************************************************)
EXTENDS Integers, Sequences, SequencesExt

CONSTANTS
    Callers,        \* threads of the process
    Half,           \* 2^w, w the bits of a DWORD
    Size,           \* bytes of the function
    Boundaries,     \* the offsets of its instructions, ascending from 0
    Layouts         \* where function, hook and trampoline are: [func, hook, tramp : 0..Words-1,
                    \* x64 : BOOLEAN]

Words == Half * Half
Starts == ToSet(Boundaries)

\* The bytes that are moved, HookFunc's argument len.
len(l) == IF l.x64 THEN 10 ELSE 5

VARIABLES
    at,             \* the layout
    memory,         \* from the addresses in use to bytes
    funcTramp,      \* *funcTramp: 0 for null
    stage,          \* HookFunc: "none", its next statement, or "hooked"
    todo,           \* the bytes that memcpy has still to write, as offsets
    saved,          \* the local array trampoline
    caller,         \* each thread: "out", "in", "done" or "lost"
    ip,             \* its instruction pointer
    did,            \* history: the instructions its call has executed
    when            \* history: its call came "before", "during" or "after" HookFunc's work

vars == <<at, memory, funcTramp, stage, todo, saved, caller, ip, did, when>>
hooking == <<at, memory, funcTramp, stage, todo, saved>>
calling == <<caller, ip, did, when>>

Original(k) == <<"original", k, 0>>
Jump        == <<"jmp", 0, 0>>
Distance(d, i) == <<"distance", d, i>>
Nop         == <<"nop", 0, 0>>
GoTo(a)     == <<"goto", a, 0>>
Garbage     == <<"garbage", 0, 0>>

Init ==
    /\ at \in Layouts
    /\ memory = [a \in {(at.func + k) % Words : k \in 0..Size - 1} |->
                    Original((a - at.func) % Words)]
    /\ funcTramp = 0 /\ stage = "none" /\ todo = {} /\ saved = << >>
    /\ caller = [t \in Callers |-> "out"]
    /\ ip = [t \in Callers |-> 0]
    /\ did = [t \in Callers |-> << >>]
    /\ when = [t \in Callers |-> "before"]

-----------------------------------------------------------------------------
(* HookFunc.  The x64 version builds the trampoline last.                  *)

Copied == [k \in 1..len(at) |-> memory[(at.func + k - 1) % Words]]

JumpBy(d) == <<Jump>> \o [i \in 1..4 |-> Distance(d, i)]

\* Faulty variant: the jump back is counted from the start of the trampoline.
BackJump_NoLen == JumpBy((at.func - funcTramp) % Words)

\* retJmpAddr = (baseAddr - *funcTramp) - len
BackJump == JumpBy((at.func - funcTramp - len(at)) % Words)

\* What follows the moved bytes.  The instructions of the x64 version, which go to
\* funcAddr + 5 without a jump, are one byte here; Resume executes them.
Rest == IF at.x64 THEN <<GoTo((at.func + 5) % Words)>> ELSE BackJump

\* proxy = (hookFunc - baseAddr) - 5; the x64 version copies four of its eight bytes.
ProxyCode == JumpBy((at.hook - at.func - 5) % (IF at.x64 THEN Half ELSE Words))

\* HookFunc is at work on what a caller meets.
Busy == stage \in {"jump", "fill"} \/ (at.x64 /\ stage \in {"alloc", "build"})

Met == when' = [t \in Callers |-> IF Busy /\ caller[t] = "in" THEN "during" ELSE when[t]]

Begin ==
    /\ stage = "none"
    /\ stage' = IF at.x64 THEN "copy" ELSE "alloc"
    /\ Met
    /\ UNCHANGED <<at, memory, funcTramp, todo, saved, caller, ip, did>>

Alloc ==
    /\ stage = "alloc"
    /\ funcTramp' = at.tramp
    /\ stage' = IF at.x64 THEN "build" ELSE "copy"
    /\ Met
    /\ UNCHANGED <<at, memory, todo, saved, caller, ip, did>>

Copy ==
    /\ stage = "copy"
    /\ saved' = Copied
    /\ stage' = IF at.x64 THEN "jump" ELSE "build"
    /\ todo' = 0..len(at) - 1
    /\ Met
    /\ UNCHANGED <<at, memory, funcTramp, caller, ip, did>>

Build ==
    /\ stage = "build"
    /\ LET bytes == saved \o Rest
           where == {(funcTramp + i - 1) % Words : i \in DOMAIN bytes}
       IN  memory' = [a \in DOMAIN memory \cup where |->
                         IF a \in where THEN bytes[((a - funcTramp) % Words) + 1] ELSE memory[a]]
    /\ stage' = IF at.x64 THEN "hooked" ELSE "jump"
    /\ Met
    /\ UNCHANGED <<at, funcTramp, todo, saved, caller, ip, did>>

\* One byte of the function; behind the five bytes of jump memcpy reads what is next to it.
WriteJump(k) ==
    /\ stage = "jump" /\ k \in todo
    /\ memory' = [memory EXCEPT ![(at.func + k) % Words] =
                                                  IF k < 5 THEN ProxyCode[k + 1] ELSE Garbage]
    /\ todo' = todo \ {k}
    /\ stage' = IF todo' # {} THEN "jump" ELSE IF len(at) > 5 THEN "fill" ELSE "hooked"
    /\ Met
    /\ UNCHANGED <<at, funcTramp, saved, caller, ip, did>>

Fill ==
    /\ stage = "fill"
    /\ memory' = [a \in DOMAIN memory |->
                     IF \E k \in 5..len(at) - 1 : a = (at.func + k) % Words THEN Nop ELSE memory[a]]
    /\ stage' = "alloc"
    /\ Met
    /\ UNCHANGED <<at, funcTramp, todo, saved, caller, ip, did>>

HookFunc ==
    \/ Begin \/ Alloc \/ Copy \/ Build \/ Fill
    \/ \E k \in 0..9 : WriteJump(k)

-----------------------------------------------------------------------------
(* The callers.                                                            *)

CallIt(t) ==
    /\ caller[t] = "out"
    /\ caller' = [caller EXCEPT ![t] = "in"]
    /\ ip' = [ip EXCEPT ![t] = at.func]
    /\ when' = [when EXCEPT ![t] =
                   IF Busy THEN "during" ELSE IF stage = "hooked" THEN "after" ELSE "before"]
    /\ UNCHANGED <<hooking, did>>

Byte(a) == IF a % Words \in DOMAIN memory THEN memory[a % Words] ELSE Garbage

GoOn(t, a) ==
    /\ ip' = [ip EXCEPT ![t] = a % Words]
    /\ UNCHANGED <<hooking, when>>

\* The instruction of the function that begins at offset k ends before this offset.
End(k) == CHOOSE n \in Starts \cup {Size} : n > k /\ \A m \in Starts : m > k => n <= m

Whole(a, k) == k \in Starts /\ \A i \in k..End(k) - 1 : Byte(a + i - k) = Original(i)

Execute(t) ==
    /\ caller[t] = "in" /\ ip[t] # at.hook
    /\ \E k \in Starts :
          /\ Byte(ip[t]) = Original(k) /\ Whole(ip[t], k)
          /\ did' = [did EXCEPT ![t] = Append(@, k)]
          /\ caller' = [caller EXCEPT ![t] = IF End(k) = Size THEN "done" ELSE @]
          /\ GoOn(t, ip[t] + End(k) - k)

\* jmp with a distance that is signed: of 32 bits, the size of an address on x86.
Signed(d) == LET n == IF at.x64 THEN Half ELSE Words IN IF d < n \div 2 THEN d ELSE d - n

WholeJump(a) == Byte(a) = Jump /\ \A i \in 1..4 : Byte(a + i) = Distance(Byte(a + 1)[2], i)

TakeJump(t) ==
    /\ caller[t] = "in" /\ ip[t] # at.hook
    /\ WholeJump(ip[t])
    /\ GoOn(t, ip[t] + 5 + Signed(Byte(ip[t] + 1)[2]))
    /\ UNCHANGED <<caller, did>>

SkipNop(t) ==
    /\ caller[t] = "in" /\ ip[t] # at.hook /\ Byte(ip[t]) = Nop
    /\ GoOn(t, ip[t] + 1)
    /\ UNCHANGED <<caller, did>>

\* push ba2, which the processor extends by its sign; mov [rsp + 4], ba1 over the
\* extension; pop, push and ret.
Resume(a) ==
    LET lower  == a % Half
        upper  == a \div Half
        pushed == <<lower, IF lower < Half \div 2 THEN 0 ELSE Half - 1>>
        fixed  == [pushed EXCEPT ![2] = upper]
    IN  fixed[1] + Half * fixed[2]

Return(t) ==
    /\ caller[t] = "in" /\ ip[t] # at.hook
    /\ Byte(ip[t])[1] = "goto"
    /\ GoOn(t, Resume(Byte(ip[t])[2]))
    /\ UNCHANGED <<caller, did>>

\* The hook calls the trampoline.
RunHook(t) ==
    /\ caller[t] = "in" /\ ip[t] = at.hook
    /\ did' = [did EXCEPT ![t] = Append(@, -1)]
    /\ GoOn(t, funcTramp)
    /\ UNCHANGED caller

\* No instruction of anybody begins here, or null was called.
Stray(t) ==
    /\ caller[t] = "in" /\ ip[t] # at.hook
    /\ ~\E k \in Starts : Byte(ip[t]) = Original(k) /\ Whole(ip[t], k)
    /\ ~WholeJump(ip[t])
    /\ Byte(ip[t])[1] \notin {"nop", "goto"}
    /\ caller' = [caller EXCEPT ![t] = "lost"]
    /\ GoOn(t, ip[t])
    /\ UNCHANGED did

Caller(t) ==
    CallIt(t) \/ Execute(t) \/ TakeJump(t) \/ SkipNop(t) \/ Return(t) \/ RunHook(t) \/ Stray(t)

Next == HookFunc \/ \E t \in Callers : Caller(t)

Spec == Init /\ [][Next]_vars

-----------------------------------------------------------------------------
\* Four bytes of the distance reach the hook.
Near == at.x64 => (at.hook - at.func - 5) % Words \in (0..Half \div 2 - 1) \cup (Words - Half \div 2 .. Words - 1)

\* A call that HookFunc did not meet runs every instruction of the function once and in
\* order, after the hook if the function was hooked by then, and leaves no thread astray:
\* the moved instructions go on where the function does, wherever the three are in memory.
HookedOnce ==
    Near => \A t \in Callers : when[t] # "during" =>
        /\ caller[t] # "lost"
        /\ caller[t] = "done" =>
              did[t] = IF when[t] = "after" THEN <<-1>> \o Boundaries ELSE Boundaries

=============================================================================
