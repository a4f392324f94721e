-------------------------- MODULE MCQuoteBinding --------------------------
(***************************************************************************)
(* Small instances of QuoteBinding.                                         *)
(***************************************************************************)
EXTENDS QuoteBinding, TLC

CONSTANTS k1, k2, r1, r2, p1, p2, w1, w2

Ids == k1 :> p1 @@ k2 :> p2

Wallets == k1 :> w1 @@ k2 :> w2
OneWallet == k1 :> w1 @@ k2 :> w1

\* A root of the greatest count there is, and a smaller one.
TwoLeaves == r1 :> 1 @@ r2 :> 2

\* Somebody else's signature under the first node's statement, and the
\* signature of a smaller statement under a larger one.
Forged ==
    {[StorageCommitment(r1, 1, p1, k1) EXCEPT !.signature.key = k2],
     [StorageCommitment(r1, 1, p1, k1) EXCEPT !.key_count = 2]}

=============================================================================
