---------------------------- MODULE CallContract ----------------------------
(***************************************************************************)
(* What send_and_await_chunk_response promises its caller, with no events,  *)
(* queues or clocks: a call ends at most once, either with an answer its    *)
(* peer gave to that very call or with an error of its own.                 *)
(***************************************************************************)
CONSTANTS Call, Answer

VARIABLES
    asked,      \* calls whose request may have reached the peer
    given,      \* call -> answers the peer gave to it
    outcome     \* call -> how it ended: nothing yet, an answer or an error

vars == <<asked, given, outcome>>

Pending == [kind |-> "pending"]
Errors == {[kind |-> "send_error"], [kind |-> "timeout_error"]}
Answered(a) == [kind |-> "answered", answer |-> a]

Init ==
    /\ asked = {}
    /\ given = [c \in Call |-> {}]
    /\ outcome = [c \in Call |-> Pending]

Ask(c) ==
    /\ c \notin asked
    /\ asked' = asked \cup {c}
    /\ UNCHANGED <<given, outcome>>

Give(c, a) ==
    /\ c \in asked
    /\ given' = [given EXCEPT ![c] = @ \cup {a}]
    /\ UNCHANGED <<asked, outcome>>

Finish(c) ==
    /\ c \in asked
    /\ outcome[c] = Pending
    /\ \E o \in Errors \cup {Answered(a) : a \in given[c]} :
           outcome' = [outcome EXCEPT ![c] = o]
    /\ UNCHANGED <<asked, given>>

Next ==
    \E c \in Call : Ask(c) \/ Finish(c) \/ \E a \in Answer : Give(c, a)

Spec == Init /\ [][Next]_vars

=============================================================================
