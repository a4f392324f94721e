----------------------- MODULE MCSettlementHandshake -----------------------
(***************************************************************************)
(* Small instances of SettlementHandshake.                                  *)
(***************************************************************************)
EXTENDS SettlementHandshake, TLC

CONSTANTS c1, c2, s1, s2

\* Unversioned, version 1, CURRENT raised to 2, MIN raised to 2.
FourMin == 0 :> 0 @@ 1 :> 1 @@ 2 :> 1 @@ 3 :> 2
FourCurrent == 0 :> 0 @@ 1 :> 1 @@ 2 :> 2 @@ 3 :> 2

\* The same, but that the last raises both to 3, at once.
AbruptMin == 0 :> 0 @@ 1 :> 1 @@ 2 :> 1 @@ 3 :> 3
AbruptCurrent == 0 :> 0 @@ 1 :> 1 @@ 2 :> 2 @@ 3 :> 3

=============================================================================
