---------------------------- MODULE ConnectHook ----------------------------
(***************************************************************************)
(* The hook on connect (InjX86/InjX86/InjX86.cpp): a call for a remote     *)
(* address is redirected to the proxy on this machine, and the wanted      *)
(* address is sent over the new connection before anything else.           *)
(*                                                                         *)
(* The hook keeps what it needs across the call in five globals and takes  *)
(* no lock, and any thread of the program may call connect.  Every access  *)
(* to a global is a step.  hookWSAConnect differs in its argument count.   *)
(*                                                                         *)
(* The contents of memory are the set of values a read of it may find:     *)
(* any address, for a new sockaddr that is not yet written and for the     *)
(* argument of a call that has returned.                                   *)
(***************************************************************************)
EXTENDS Naturals, Sequences

CONSTANTS
    Threads,        \* threads of the hooked program
    Address,        \* pairs of a host and a port
    Local,          \* those of 127.0.0.1
    Proxy,          \* 127.0.0.1:8089
    MaxCalls        \* bound: calls of connect

ASSUME HookAssumption == Local \subseteq Address /\ Proxy \in Local /\ MaxCalls \in Nat

VARIABLES
    sockAddrBackup, \* the call whose argument it points to, 0 for null
    sockAddrNew,    \* an index into heap, 0 for null
    heap,           \* the contents of the sockaddrs allocated: the deletes are not reached
    isPatchUp,
    retAddrBackup,  \* the call whose return address it is, 0 at first
    calls,          \* history: what each call wanted and did
    pc,             \* "out" of the hook, the next statement in it, or "lost"
    call            \* the call each thread is in

globals == <<sockAddrBackup, sockAddrNew, heap, isPatchUp, retAddrBackup>>
vars == <<globals, calls, pc, call>>

\* target, frame: what connect and send were called with, << >> before; up: connect
\* succeeded, and did not fail or leave the connection pending; shared: another call
\* was in the hook at some time of this one; over: the hook has returned.
Maybe == {<< >>} \cup {<<a>> : a \in Address}
Call == [want : Address, target : Maybe, up : BOOLEAN, frame : Maybe,
         shared : BOOLEAN, over : BOOLEAN]

\* What sockAddrBackup points to: the caller's argument, or whatever has become
\* of that memory since the caller got control back.
Backup == IF calls[sockAddrBackup].over THEN Address ELSE {calls[sockAddrBackup].want}

Step(t, from, to) == pc[t] = from /\ pc' = [pc EXCEPT ![t] = to]

Init ==
    /\ sockAddrBackup = 0 /\ sockAddrNew = 0
    /\ heap = << >>
    /\ isPatchUp = FALSE
    /\ retAddrBackup = 0
    /\ calls = << >>
    /\ pc = [t \in Threads |-> "out"]
    /\ call = [t \in Threads |-> 0]

-----------------------------------------------------------------------------
(* hookConnect up to the call of PatchSockAddr.                            *)

\* Thread t calls connect for address a.
Enter(t, a) ==
    /\ Len(calls) < MaxCalls
    /\ Step(t, "out", "new")
    /\ LET busy == {u \in Threads : pc[u] # "out"} IN
       calls' = Append([c \in 1..Len(calls) |->
                           [calls[c] EXCEPT !.shared = @ \/ \E u \in busy : call[u] = c]],
                       [want |-> a, target |-> << >>, up |-> FALSE,
                        frame |-> << >>, shared |-> busy # {}, over |-> FALSE])
    /\ call' = [call EXCEPT ![t] = Len(calls) + 1]
    /\ sockAddrBackup' = Len(calls) + 1
    /\ UNCHANGED <<sockAddrNew, heap, isPatchUp, retAddrBackup>>

(* PatchSockAddr.                                                          *)

\* new sockaddr, not initialised.
NewAddr(t) ==
    /\ Step(t, "new", "copy")
    /\ heap' = Append(heap, Address)
    /\ sockAddrNew' = Len(heap) + 1
    /\ UNCHANGED <<sockAddrBackup, isPatchUp, retAddrBackup, calls, call>>

CopyAddr(t) ==
    /\ Step(t, "copy", "clear")
    /\ heap' = [heap EXCEPT ![sockAddrNew] = Backup]
    /\ UNCHANGED <<sockAddrBackup, sockAddrNew, isPatchUp, retAddrBackup, calls, call>>

ClearFlag(t) ==
    /\ Step(t, "clear", "test")
    /\ isPatchUp' = FALSE
    /\ UNCHANGED <<sockAddrBackup, sockAddrNew, heap, retAddrBackup, calls, call>>

TestHost(t) ==
    /\ \/ Step(t, "test", "redirect") /\ heap[sockAddrNew] \ Local # {}
       \/ Step(t, "test", "connect")  /\ heap[sockAddrNew] \cap Local # {}
    /\ UNCHANGED <<globals, calls, call>>

\* Port and host, through sockAddrNew of now.
Redirect(t) ==
    /\ Step(t, "redirect", "flag")
    /\ heap' = [heap EXCEPT ![sockAddrNew] = {Proxy}]
    /\ UNCHANGED <<sockAddrBackup, sockAddrNew, isPatchUp, retAddrBackup, calls, call>>

SetFlag(t) ==
    /\ Step(t, "flag", "connect")
    /\ isPatchUp' = TRUE
    /\ UNCHANGED <<sockAddrBackup, sockAddrNew, heap, retAddrBackup, calls, call>>

(* The rest of hookConnect.                                                *)

\* connectTramp is called with sockAddrNew; it may block.
ConnectCall(t) ==
    /\ Step(t, "connect", "connecting")
    /\ \E a \in heap[sockAddrNew] : calls' = [calls EXCEPT ![call[t]].target = <<a>>]
    /\ UNCHANGED <<globals, call>>

\* Its result is not looked at.
ConnectReturns(t, up) ==
    /\ Step(t, "connecting", "save")
    /\ calls' = [calls EXCEPT ![call[t]].up = up]
    /\ UNCHANGED <<globals, call>>

\* Faulty variant: the return address is saved once only.
SaveReturn_Once(t) ==
    /\ Step(t, "save", "sendTest")
    /\ retAddrBackup' = IF retAddrBackup = 0 THEN call[t] ELSE retAddrBackup
    /\ UNCHANGED <<sockAddrBackup, sockAddrNew, heap, isPatchUp, calls, call>>

\* pop retAddrBackup
SaveReturn(t) ==
    /\ Step(t, "save", "sendTest")
    /\ retAddrBackup' = call[t]
    /\ UNCHANGED <<sockAddrBackup, sockAddrNew, heap, isPatchUp, calls, call>>

SendTest(t) ==
    /\ \/ Step(t, "sendTest", "frame")  /\ isPatchUp
       \/ Step(t, "sendTest", "return") /\ ~isPatchUp
    /\ UNCHANGED <<globals, calls, call>>

\* Faulty variant: the frame is made from the address that was connected to.
SendFrame_New(t) ==
    /\ Step(t, "frame", "return")
    /\ \E a \in heap[sockAddrNew] :
          calls' = IF calls[call[t]].up THEN [calls EXCEPT ![call[t]].frame = <<a>>] ELSE calls
    /\ UNCHANGED <<globals, call>>

\* SendPatch writes the address; send fails unless the connection is established.
SendFrame(t) ==
    /\ Step(t, "frame", "return")
    /\ \E a \in Backup :
          calls' = IF calls[call[t]].up THEN [calls EXCEPT ![call[t]].frame = <<a>>] ELSE calls
    /\ UNCHANGED <<globals, call>>

\* push retAddrBackup; ret, with 0 in eax.  At the call site of another call, t is lost.
Return(t) ==
    /\ Step(t, "return", IF retAddrBackup = call[t] THEN "out" ELSE "lost")
    /\ calls' = [calls EXCEPT ![call[t]].over = TRUE]
    /\ UNCHANGED <<globals, call>>

hookConnect(t) ==
    \/ (\E a \in Address : Enter(t, a))
    \/ NewAddr(t) \/ CopyAddr(t) \/ ClearFlag(t) \/ TestHost(t)
    \/ Redirect(t) \/ SetFlag(t)
    \/ ConnectCall(t)
    \/ (\E up \in BOOLEAN : ConnectReturns(t, up))
    \/ SaveReturn(t) \/ SendTest(t) \/ SendFrame(t) \/ Return(t)

Next == \E t \in Threads : hookConnect(t)

Spec == Init /\ [][Next]_vars

-----------------------------------------------------------------------------
Labels == {"out", "new", "copy", "clear", "test", "redirect", "flag", "connect",
           "connecting", "save", "sendTest", "frame", "return", "lost"}

\* The types; a thread in the hook has a call, and both pointers are set by then.
TypeOK ==
    /\ sockAddrBackup \in 0..Len(calls)
    /\ sockAddrNew \in 0..Len(heap)
    /\ heap \in Seq(SUBSET Address)
    /\ isPatchUp \in BOOLEAN
    /\ retAddrBackup \in 0..Len(calls)
    /\ calls \in Seq(Call)
    /\ pc \in [Threads -> Labels]
    /\ call \in [Threads -> 0..Len(calls)]
    /\ \A t \in Threads : pc[t] # "out" => call[t] > 0 /\ sockAddrBackup > 0
    /\ \A t \in Threads : pc[t] \notin {"out", "new"} => sockAddrNew > 0

Alone(c) == calls[c].over /\ ~calls[c].shared

\* A call for a remote address that no other call overlaps reaches the proxy, and
\* if that connection is established the wanted address is sent over it, whatever
\* earlier calls, overlapping ones included, left in the globals.
AloneIsRedirected ==
    \A c \in 1..Len(calls) : Alone(c) /\ calls[c].want \notin Local =>
        /\ calls[c].target = <<Proxy>>
        /\ calls[c].frame = IF calls[c].up THEN <<calls[c].want>> ELSE << >>

\* A call for this machine that no other call overlaps goes where it wants, and
\* nothing is added to what the program sends.
AloneIsUntouched ==
    \A c \in 1..Len(calls) : Alone(c) /\ calls[c].want \in Local =>
        calls[c].target = <<calls[c].want>> /\ calls[c].frame = << >>

\* What a call that is alone asks for is what it gets.
AloneIsServed == AloneIsRedirected /\ AloneIsUntouched

\* A call that no other call overlaps returns to its own call site.
LostNeedsOverlap == \A t \in Threads : pc[t] = "lost" => calls[call[t]].shared

=============================================================================
