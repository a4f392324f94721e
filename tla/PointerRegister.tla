-------------------------- MODULE PointerRegister --------------------------
(***************************************************************************)
(* What pointers promise, with no signatures, messages or devices: every    *)
(* replica keeps, per address, one state its owner authored, and moves only *)
(* forward.  The order is restated here from the documentation of           *)
(* PointerState::replaces (src/src/pointer.rs, rules 0, 1 and 2) rather     *)
(* than reused, so that PointerNetwork has something to be compared with.   *)
(***************************************************************************)
EXTENDS Integers

CONSTANTS
    Replica,
    Address,
    State,             \* what an owner can author
    AddressOf(_),      \* the address a state belongs at
    Rank(_),           \* its counter
    TargetKey(_),      \* its target, as the pair <<kind tag, address>>
    LastRank,          \* the final counter
    Nothing            \* an address nothing has been stored at

VARIABLES
    authored,          \* the states owners have authored
    register           \* what each replica keeps at each address

vars == <<authored, register>>

Final(s) == Rank(s) = LastRank

\* The successor relation: same address, a base that is not final, and then
\* a larger counter, or the same counter and smaller target bytes.
SmallerTarget(k, l) == k[1] <= l[1] /\ (k[1] = l[1] => k[2] < l[2])

Supersedes(s, t) ==
    /\ AddressOf(s) = AddressOf(t)
    /\ ~ Final(t)
    /\ Rank(t) <= Rank(s)
    /\ Rank(t) = Rank(s) => SmallerTarget(TargetKey(s), TargetKey(t))

Init ==
    /\ authored = {}
    /\ register = [n \in Replica |-> [a \in Address |-> Nothing]]

Author(s) ==
    /\ authored' = authored \cup {s}
    /\ UNCHANGED register

Advance(n, a, s) ==
    /\ s \in authored
    /\ AddressOf(s) = a
    /\ register[n][a] # Nothing => Supersedes(s, register[n][a])
    /\ register' = [register EXCEPT ![n][a] = s]
    /\ UNCHANGED authored

Next ==
    \/ \E s \in State : Author(s)
    \/ \E n \in Replica, a \in Address, s \in State : Advance(n, a, s)

Spec == Init /\ [][Next]_vars

=============================================================================
