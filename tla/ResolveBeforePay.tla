------------------------- MODULE ResolveBeforePay -------------------------
(***************************************************************************)
(* What resolve-before-pay promises to those who pay (ADR-0004, as told in  *)
(* src/src/payment/commitment.rs): nodes bind themselves to prices, never   *)
(* take one back, and are paid nothing else.                                *)
(***************************************************************************)
CONSTANTS Node, Payer, Price, baseline

VARIABLES
    bound,            \* node -> the prices it has bound itself to
    paid              \* payments: their payer, node and price

vars == <<bound, paid>>

Payment == [payer : Payer, node : Node, price : Price]

Init == bound = [n \in Node |-> {baseline}] /\ paid = {}

Bind(n) ==
    /\ \E price \in Price : bound' = [bound EXCEPT ![n] = @ \cup {price}]
    /\ UNCHANGED paid

\* A payer pays several nodes at once, once.
Pay(payer) ==
    /\ \A p \in paid : p.payer # payer
    /\ \E batch \in SUBSET {p \in Payment : p.payer = payer /\ p.price \in bound[p.node]} :
           paid' = paid \cup batch
    /\ UNCHANGED bound

Next == (\E n \in Node : Bind(n)) \/ (\E payer \in Payer : Pay(payer))

Spec == Init /\ [][Next]_vars

=============================================================================
