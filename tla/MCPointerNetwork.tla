-------------------------- MODULE MCPointerNetwork --------------------------
(***************************************************************************)
(* Small instances of PointerNetwork.                                       *)
(***************************************************************************)
EXTENDS PointerNetwork, TLC

CONSTANTS alice, bob, d1, d2, d3, n1, n2

\* Addresses 10 and 20 are alice's and bob's.
PointerName == {10, 20}
ThreeNames == {10, 20, 30}
BothAddresses == alice :> 10 @@ bob :> 20
AliceAddress == alice :> 10

AtChunk == [kind_tag |-> 0, address |-> 20]
AtBob == [kind_tag |-> POINTER_KIND, address |-> 20]
ChunkAndPointer == {AtChunk, AtBob}
AtCarol == [kind_tag |-> POINTER_KIND, address |-> 30]
TwoPointers == {AtBob, AtCarol}

\* A copy of alice's first record whose signature does not decode, one of an
\* unknown format version, and one that claims the final counter.
SomeForgeries ==
    {[shape |-> "bad_signature",
      body |-> encode_body(POINTER_FORMAT_VERSION, alice, 0, AtBob)],
     [shape |-> "exact",
      body |-> encode_body(POINTER_FORMAT_VERSION + 1, alice, 0, AtBob)],
     [shape |-> "exact",
      body |-> encode_body(POINTER_FORMAT_VERSION, alice, FinalCounter, AtBob)]}

OneDevice == d1 :> alice
TwoDevices == d1 :> alice @@ d2 :> alice
TwoOwners == d1 :> alice @@ d3 :> bob

NodeSymmetry == Permutations({n1, n2})

=============================================================================
