-------------------------------- MODULE Pipe --------------------------------
(***************************************************************************)
(* What a byte pipe promises to its user, and what each direction of a     *)
(* Client (Network/Client.cs) is meant to be: messages come out in the     *)
(* order they went in, none is dropped, repeated or invented while the     *)
(* pipe holds, and as long as it holds each of them does come out.  A      *)
(* broken pipe may still be fed, but gives nothing any more.               *)
(***************************************************************************)
EXTENDS Naturals, Sequences

CONSTANT Message        \* what may be put into the pipe

VARIABLES
    taken,              \* everything put into the pipe, in order
    given,              \* everything that came out of it, in order
    broken              \* the connection, or the process, is gone

vars == <<taken, given, broken>>

Init ==
    /\ taken = << >>
    /\ given = << >>
    /\ broken = FALSE

Take(m) ==
    /\ taken' = Append(taken, m)
    /\ UNCHANGED <<given, broken>>

Give ==
    /\ ~broken
    /\ Len(given) < Len(taken)
    /\ given' = Append(given, taken[Len(given) + 1])
    /\ UNCHANGED <<taken, broken>>

Break ==
    /\ broken' = TRUE
    /\ UNCHANGED <<taken, given>>

Next == (\E m \in Message : Take(m)) \/ Give \/ Break

Safety == Init /\ [][Next]_vars

Spec == Safety /\ WF_vars(Give)

=============================================================================
