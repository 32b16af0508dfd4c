----------------------------- MODULE HookStack ------------------------------
(***************************************************************************)
(* The stack under the hooks, instruction by instruction.  The hooks are   *)
(* written in assembler without a frame pointer: which word "[esp + 0xC]"  *)
(* is depends on everything pushed and popped before it, also by the       *)
(* functions they call.  Words are symbolic: the application's return      *)
(* address is "ret", its arguments have the names of the parameters, a     *)
(* register holds at first a value of its own name.  One thread is enough  *)
(* here; what overlapping calls do to the globals is modelled in           *)
(* ConnectHook.                                                            *)
(***************************************************************************)
EXTENDS Naturals, Sequences, SequencesExt

CONSTANTS
    Hooks,      \* the hooks considered, of those that Code knows
    Below       \* the words of the application's frame below its arguments

\* Instructions; a word of the stack is named by its distance from the top.
Push(x)   == <<[op |-> "push", x |-> x]>>
PushAt(k) == <<[op |-> "pushAt", k |-> k]>>
Pop(x)    == <<[op |-> "pop", x |-> x]>>
Mov(x, y) == <<[op |-> "mov", x |-> x, y |-> y]>>
Drop(n)   == <<[op |-> "drop", n |-> n]>>
Pad       == <<[op |-> "pad"]>>
Call(f)   == <<[op |-> "call", f |-> f]>>
Ret       == <<[op |-> "ret"]>>
Jmp(f)    == <<[op |-> "jmp", f |-> f]>>

Pushes(xs) == FlattenSeq([i \in DOMAIN xs |-> Push(xs[i])])
Pops(xs)   == FlattenSeq([i \in DOMAIN xs |-> Pop(xs[i])])

-----------------------------------------------------------------------------
(* InjX86.cpp, stdcall: arguments on the stack, removed by the callee.     *)

PushAD == <<"eax", "ecx", "edx", "ebx", "esp", "ebp", "esi", "edi">>

\* pushad and pushfd, nine words; then the return address and the arguments.
Saved == Append(PushAD, "flags")

Backup == PushAt(11) \o Pop("sockAddrBackup")

Prologue(log) ==
    Pushes(Saved) \o Backup \o Call("PatchSockAddr")
    \o PushAt(11) \o PushAt(11) \o Call(log) \o Pops(Reverse(Saved))

Epilogue(n) == Drop(n) \o Mov("eax", "0") \o Push("retAddrBackup") \o Ret

hookConnect ==
    Prologue("mConnect")
    \o PushAt(3) \o Push("sockAddrNew") \o PushAt(3) \o Call("connectTramp")
    \o Pop("retAddrBackup") \o Call("SendPatch") \o Epilogue(2)

hookWSAConnect ==
    Prologue("mWSAConnect")
    \o PushAt(7) \o PushAt(7) \o PushAt(7) \o PushAt(7) \o PushAt(7)
    \o Push("sockAddrNew") \o PushAt(7) \o Call("WSAConnectTramp")
    \o Pop("retAddrBackup") \o Call("SendPatch") \o Epilogue(6)

\* bind keeps the result and sends nothing.
hookBind ==
    Prologue("mBind")
    \o PushAt(3) \o Push("sockAddrNew") \o PushAt(3) \o Call("bindTramp")
    \o Pop("retAddrBackup") \o Drop(3) \o Push("retAddrBackup") \o Ret

\* socket, called first and logged with its result.
hookSocket ==
    PushAt(3) \o PushAt(3) \o PushAt(3) \o Call("socketTramp")
    \o Pushes(Saved) \o Push("eax") \o Call("mSocketLogSocket") \o Pops(Reverse(Saved))
    \o Pop("retAddrBackup") \o Drop(3) \o Push("retAddrBackup") \o Ret

\* Faulty variant: the registers are taken back in the order in which they were saved.
LogTwo_SameOrder(log, tramp) ==
    Pushes(Saved) \o PushAt(11) \o PushAt(11) \o Call(log) \o Pops(Saved) \o Jmp(tramp)

\* The hooks that only log: the first two or three arguments, and on to the function.
LogTwo(log, tramp) ==
    Pushes(Saved) \o PushAt(11) \o PushAt(11) \o Call(log) \o Pops(Reverse(Saved)) \o Jmp(tramp)

LogThree(log, tramp) ==
    Pushes(Saved) \o PushAt(12) \o PushAt(12) \o PushAt(12) \o Call(log)
    \o Pops(Reverse(Saved)) \o Jmp(tramp)

hookBindLog   == LogTwo("mBindLog", "bindTramp")
hookWSARecv   == LogTwo("mWSARecv", "WSARecvTramp")
hookWSASend   == LogTwo("mWSASend", "WSASendTramp")
hookAccept    == LogTwo("mAccept", "acceptTramp")
hookListen    == LogTwo("mListen", "listenTramp")
hookWSAAccept == LogTwo("mWSAAccept", "WSAAcceptTramp")
hookSend      == LogThree("mSend", "sendTramp")
hookRecv      == LogThree("mRecv", "recvTramp")

hookSetInfoThread ==
    Pushes(Saved) \o Call("mNtSetInformationThread") \o Pops(Reverse(Saved)) \o Jmp("setThreadInfoTramp")

-----------------------------------------------------------------------------
(* hook.asm, x64: four arguments in registers, the stack is the caller's.  *)

asm_hook_connect ==
    Push("rdx") \o Pop("sockAddrBackup") \o Push("rcx") \o Pop("sockBackup")
    \o Pushes(<<"rax", "r9", "r10", "r11", "flags", "r8", "rdx", "rcx">>)
    \o Call("PatchSocketAddress")
    \o Pop("rcx") \o Drop(1) \o Mov("rdx", "sockAddrNew")
    \o Pops(<<"r8", "flags", "r11", "r10", "r9", "rax">>)
    \o Pop("retAddr") \o Call("connectTramp64") \o Push("retAddr")
    \o Mov("rcx", "sockBackup") \o Pad \o Call("SendSockPatch") \o Drop(1)
    \o Pops(<<"flags", "r10", "r9", "r8", "rdx", "rcx">>)
    \o Mov("rax", "0") \o Ret

asm_hook_wsaconnect ==
    Mov("sockAddrBackup", "rdx")
    \o Pushes(<<"rbx", "rax", "r9", "r10", "r11", "flags", "r8", "rdx", "rcx">>)
    \o Call("PatchSocketAddress")
    \o Pop("rcx") \o Drop(1) \o Mov("rdx", "sockAddrNew")
    \o Pops(<<"r8", "flags", "r11", "r10", "r9", "rax", "rbx">>)
    \o Pop("retAddr") \o Call("WSAConnectTramp64") \o Push("retAddr")
    \o Pushes(<<"rcx", "rdx", "r8", "r9", "r10", "flags">>)
    \o Mov("rcx", "sockBackup") \o Pad \o Call("SendSockPatch") \o Drop(1)
    \o Pops(<<"flags", "r10", "r9", "r8", "rdx", "rcx">>)
    \o Mov("rax", "0") \o Ret

Code(h) ==
    CASE h = "hookConnect"    -> hookConnect
      [] h = "hookWSAConnect" -> hookWSAConnect
      [] h = "hookBind"       -> hookBind
      [] h = "hookSocket"     -> hookSocket
      [] h = "hookBindLog"    -> hookBindLog
      [] h = "hookWSARecv"    -> hookWSARecv
      [] h = "hookWSASend"    -> hookWSASend
      [] h = "hookAccept"     -> hookAccept
      [] h = "hookListen"     -> hookListen
      [] h = "hookWSAAccept"  -> hookWSAAccept
      [] h = "hookSend"       -> hookSend
      [] h = "hookRecv"       -> hookRecv
      [] h = "hookSetInfoThread"   -> hookSetInfoThread
      [] h = "asm_hook_connect"    -> asm_hook_connect
      [] h = "asm_hook_wsaconnect" -> asm_hook_wsaconnect

\* The hooks that end in a jump, and where it goes.
Returning(h) == h \in {"hookConnect", "hookWSAConnect", "hookBind", "hookSocket",
                       "asm_hook_connect", "asm_hook_wsaconnect"}
On(h) == Code(h)[Len(Code(h))].f

-----------------------------------------------------------------------------
X64(h) == h \in {"asm_hook_connect", "asm_hook_wsaconnect"}

\* What the application passes: as many of these as the function has.
Parameters == <<"s", "name", "namelen", "lpCallerData", "lpCalleeData", "lpSQOS", "lpGQOS">>

Arity(h) ==
    CASE h = "hookListen" -> 2
      [] h \in {"hookConnect", "hookBind", "hookBindLog", "hookAccept", "hookSocket",
                "asm_hook_connect"} -> 3
      [] h \in {"hookSend", "hookRecv", "hookSetInfoThread"} -> 4
      [] h = "hookWSAAccept" -> 5
      [] h \in {"hookWSAConnect", "asm_hook_wsaconnect", "hookWSARecv", "hookWSASend"} -> 7

Arguments(h) == SubSeq(Parameters, 1, Arity(h))

TwoLogged   == {"mConnect", "mWSAConnect", "mBind", "mBindLog", "mWSARecv", "mWSASend",
                "mAccept", "mListen", "mWSAAccept"}
ThreeLogged == {"mSend", "mRecv"}

Params(f) ==
    CASE f \in {"PatchSockAddr", "mNtSetInformationThread"} -> 0
      [] f \in {"SendPatch", "SendSockPatch", "mSocketLogSocket"} -> 1
      [] f \in TwoLogged -> 2
      [] f \in ThreeLogged \cup {"connectTramp", "bindTramp", "socketTramp", "connectTramp64",
                                 "PatchSocketAddress"} -> 3
      [] f \in {"WSAConnectTramp", "WSAConnectTramp64"} -> 7

Trampolines == {"connectTramp", "WSAConnectTramp", "bindTramp", "socketTramp",
                "connectTramp64", "WSAConnectTramp64"}

ArgRegisters == <<"rcx", "rdx", "r8", "r9">>

\* What a call may change: volatile registers, and rsi in the trampolines that the x64
\* HookFunc builds.
Clobbered(h, f) ==
    IF X64(h) THEN {"rax", "rcx", "rdx", "r8", "r9", "r10", "r11", "flags"}
                   \cup (IF f \in Trampolines THEN {"rsi"} ELSE {})
    ELSE {"eax", "ecx", "edx", "flags"}

Registers == ToSet(Saved) \cup {"rax", "rbx", "rcx", "rdx", "rsi", "r8", "r9", "r10", "r11"}
Globals == {"sockAddrBackup", "sockAddrNew", "sockBackup", "retAddrBackup", "retAddr"}

VARIABLES
    hook, ip,
    stack,      \* the top first
    word,       \* registers and globals
    target,     \* where "ret" has gone
    called      \* for each function called: its arguments

vars == <<hook, ip, stack, word, target, called>>

\* On x64 the caller leaves four words of room for the register arguments.
Room == <<"room1", "room2", "room3", "room4">>

\* What the application must find on the stack when the hook has returned.
Left(h) == IF X64(h) THEN Room \o SubSeq(Arguments(h), 5, Len(Arguments(h))) \o Below ELSE Below

Init ==
    /\ hook \in Hooks /\ ip = 1
    /\ stack = <<"ret">> \o (IF X64(hook) THEN << >> ELSE Arguments(hook)) \o Left(hook)
    /\ word = [x \in Registers \cup Globals |->
                  IF X64(hook) /\ Contains(ArgRegisters, x)
                     /\ IndexFirstSubSeq(<<x>>, ArgRegisters) <= Len(Arguments(hook))
                  THEN Arguments(hook)[IndexFirstSubSeq(<<x>>, ArgRegisters)] ELSE x]
    /\ target = "none"
    /\ called = << >>

Instruction == Code(hook)[ip]
At(op) == target = "none" /\ Instruction.op = op /\ ip' = ip + 1

DoPush ==
    /\ At("push")
    /\ stack' = <<word[Instruction.x]>> \o stack
    /\ UNCHANGED <<hook, word, target, called>>

DoPushAt ==
    /\ At("pushAt")
    /\ stack' = <<stack[Instruction.k + 1]>> \o stack
    /\ UNCHANGED <<hook, word, target, called>>

DoPop ==
    /\ At("pop")
    /\ word' = [word EXCEPT ![Instruction.x] = Head(stack)]
    /\ stack' = Tail(stack)
    /\ UNCHANGED <<hook, target, called>>

DoMov ==
    /\ At("mov")
    /\ word' = [word EXCEPT ![Instruction.x] =
                   IF Instruction.y = "0" THEN "0" ELSE word[Instruction.y]]
    /\ UNCHANGED <<hook, stack, target, called>>

DoDrop ==
    /\ At("drop")
    /\ stack' = SubSeq(stack, Instruction.n + 1, Len(stack))
    /\ UNCHANGED <<hook, word, target, called>>

DoPad ==
    /\ At("pad")
    /\ stack' = <<"pad">> \o stack
    /\ UNCHANGED <<hook, word, target, called>>

Passed(f) ==
    IF X64(hook)
    THEN [i \in 1..Params(f) |-> IF i <= 4 THEN word[ArgRegisters[i]] ELSE stack[i]]
    ELSE SubSeq(stack, 1, Params(f))

\* What f returns has its name.  A callee on x64 may keep its register arguments in the words above its return address.
Spilled(f, n) == [i \in DOMAIN stack |-> IF i <= n THEN Passed(f)[i] ELSE stack[i]]

DoCall ==
    /\ At("call")
    /\ LET f == Instruction.f
       IN  /\ called' = Append(called, [f |-> f, args |-> Passed(f)])
           /\ \/ X64(hook) /\ stack' \in {Spilled(f, n) : n \in {0, IF Params(f) < 4 THEN Params(f) ELSE 4}}
              \/ ~X64(hook) /\ stack' = SubSeq(stack, Params(f) + 1, Len(stack))
           /\ word' = [x \in DOMAIN word |->
                         IF x = (IF X64(hook) THEN "rax" ELSE "eax") THEN f
                         ELSE IF x \in Clobbered(hook, f) THEN "any"
                         ELSE IF x = "sockAddrNew" /\ f \in {"PatchSockAddr", "PatchSocketAddress"}
                         THEN "new" ELSE word[x]]
    /\ UNCHANGED <<hook, target>>

DoRet ==
    /\ At("ret")
    /\ target' = Head(stack)
    /\ stack' = Tail(stack)
    /\ UNCHANGED <<hook, word, called>>

\* On to the function, with everything as the application left it.
DoJmp ==
    /\ At("jmp")
    /\ target' = Instruction.f
    /\ UNCHANGED <<hook, stack, word, called>>

Next == DoPush \/ DoPushAt \/ DoPop \/ DoMov \/ DoDrop \/ DoPad \/ DoCall \/ DoRet \/ DoJmp

Spec == Init /\ [][Next]_vars

-----------------------------------------------------------------------------
\* When a hook returns, it does so to its caller, with the stack and the registers that
\* the caller counts on; a hook that only logs jumps to the function with all as it was.
\* That does not hold of asm_hook_connect, which takes six words off the stack that it
\* never pushed (hook.asm:57-62), nor of rsi on x64, which the trampoline uses
\* (Mapping64.cpp:175-188).
ReturnsToCaller ==
    target # "none" /\ hook # "asm_hook_connect" =>
        /\ target = IF Returning(hook) THEN "ret" ELSE On(hook)
        /\ X64(hook) => SubSeq(stack, 5, Len(stack)) = SubSeq(Left(hook), 5, Len(Left(hook)))
        /\ ~X64(hook) => stack = IF Returning(hook) THEN Left(hook)
                                 ELSE <<"ret">> \o Arguments(hook) \o Left(hook)
        /\ \A x \in {"ebx", "esi", "edi", "ebp", "rbx"} : word[x] = x
        /\ ~Returning(hook) => \A x \in ToSet(Saved) : word[x] = x

\* The function that is hooked gets the arguments of the call, but for the address, and
\* the address given is what the frame is made from.  The frame is sent on the socket of
\* the call; asm_hook_wsaconnect uses the one of the last asm_hook_connect (hook.asm:111).
\* What is logged are the first arguments, and the result of socket, which the application
\* gets too, as it does that of bind.
PassesTheCallOn ==
    /\ \A i \in DOMAIN called :
        /\ called[i].f \in Trampolines \ {"socketTramp"} =>
              /\ called[i].args = [Arguments(hook) EXCEPT ![2] = "new"]
              /\ word["sockAddrBackup"] = "name"
        /\ called[i].f = "socketTramp" => called[i].args = Arguments(hook)
        /\ called[i].f \in {"SendPatch", "SendSockPatch"} =>
              called[i].args = <<IF hook = "asm_hook_wsaconnect" THEN "sockBackup" ELSE "s">>
        /\ called[i].f \in TwoLogged \cup ThreeLogged =>
              called[i].args = SubSeq(Parameters, 1, Params(called[i].f))
        /\ called[i].f = "mSocketLogSocket" => called[i].args = <<"socketTramp">>
    /\ target # "none" /\ hook \in {"hookBind", "hookSocket"} =>
          word["eax"] = IF hook = "hookBind" THEN "bindTramp" ELSE "socketTramp"

\* Neither the caller nor the function can tell that there is a hook, but for the address.
HookIsTransparent == ReturnsToCaller /\ PassesTheCallOn

=============================================================================
