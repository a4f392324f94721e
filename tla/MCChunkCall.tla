---------------------------- MODULE MCChunkCall ----------------------------
(***************************************************************************)
(* Small instances of ChunkCall.                                            *)
(***************************************************************************)
EXTENDS ChunkCall, TLC

CONSTANTS c1, c2, p1, p2

OneTarget == c1 :> p1
SameTarget == c1 :> p1 @@ c2 :> p1
OneId == c1 :> 1
TwoIds == c1 :> 1 @@ c2 :> 2
OneTimeout == c1 :> 2
\* Both calls wait, and their deadlines come apart.
TwoTimeouts == c1 :> 1 @@ c2 :> 2

Message(topic, source, id) ==
    [topic |-> topic, source |-> source, id |-> id, body |-> "success",
     re |-> NoCall]

\* Everything that differs from an answer to <<p1, 1>> in one field only: a
\* message of another protocol, one of no known source, one of another peer,
\* and a late response to an earlier call to p1.
NearMisses ==
    {Message("other", p1, 1), Message("chunk", NoPeer, 1),
     Message("chunk", p2, 1), Message("chunk", p1, 3)}

=============================================================================
