----------------------------- MODULE CallTypes -----------------------------
(***************************************************************************)
(* What the typed messages of src/src/chunk.rs promise, with no bytes and   *)
(* no releases: a client is told about a request only what the node said to *)
(* that request, and a node says only what answers it.                      *)
(***************************************************************************)
CONSTANTS
    Request,          \* requests: whose, which, and what is asked
    Answers           \* request -> the replies to it that make sense

VARIABLES asked, said, told

vars == <<asked, said, told>>

Init == asked = {} /\ said = {} /\ told = {}

Ask(r) ==
    /\ asked' = asked \cup {r}
    /\ UNCHANGED <<said, told>>

Say(r) ==
    /\ r \in asked
    /\ \E reply \in Answers[r] : said' = said \cup {[request |-> r, reply |-> reply]}
    /\ UNCHANGED <<asked, told>>

Tell(s) ==
    /\ told' = told \cup {s}
    /\ UNCHANGED <<asked, said>>

Next == (\E r \in Request : Ask(r) \/ Say(r)) \/ \E s \in said : Tell(s)

Spec == Init /\ [][Next]_vars

=============================================================================
