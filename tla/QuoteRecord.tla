---------------------------- MODULE QuoteRecord ----------------------------
(***************************************************************************)
(* Storage commitments, the quotes and merkle candidates that pin them, and *)
(* the proof bytes that carry them (src/src/payment: commitment.rs,         *)
(* verify.rs, proof.rs): values and pure functions.  Hashes are injective,  *)
(* and a signature is the key, context and message it was made of.  What is *)
(* evmlib's (quotes, their signed bytes) is modelled by what the crate      *)
(* reads of it.  The crate has the checks one by one; which of them a       *)
(* client or a storer makes of a quote is ant-client's and ant-node's, and  *)
(* modelled after the crate's comments (Stands and what follows it).        *)
(***************************************************************************)
EXTENDS Pricing, FiniteSets

CONSTANTS
    Key,              \* ML-DSA-65 public keys, one for each node
    PeerId,           \* key -> the peer id that is its hash
    Root,             \* of Merkle trees over a node's keys
    KeyCount,         \* the counts of commitments and quotes
    RewardsAddress,   \* where nodes want to be paid
    MAX_COMMITMENT_KEY_COUNT

ASSUME KeyAssumption == \A k, l \in Key : PeerId[k] = PeerId[l] => k = l

ASSUME CountAssumption ==
    /\ KeyCount \subseteq Records /\ 0 \in KeyCount
    /\ MAX_COMMITMENT_KEY_COUNT \in Nat

-----------------------------------------------------------------------------
(* Signed statements *)

Sign(key, context, message) ==
    [key |-> key, context |-> context, message |-> message]

\* What a commitment says, in the order in which it is signed.
commitment_signed_payload(root, key_count, sender_peer_id, sender_public_key) ==
    <<root, key_count, sender_peer_id, sender_public_key>>

StorageCommitment(root, key_count, sender_peer_id, sender_public_key) ==
    [root |-> root, key_count |-> key_count, sender_peer_id |-> sender_peer_id,
     sender_public_key |-> sender_public_key,
     signature |-> Sign(sender_public_key, "DOMAIN_COMMITMENT",
                        commitment_signed_payload(root, key_count,
                            sender_peer_id, sender_public_key))]

commitment_hash(c) == [domain |-> "DOMAIN_COMMITMENT_HASH", of |-> c]

\* The pin of a quote without commitment.
NoPin == [domain |-> "None"]

verify_commitment_signature(c) ==
    c.signature = Sign(c.sender_public_key, "DOMAIN_COMMITMENT",
                       commitment_signed_payload(c.root, c.key_count,
                           c.sender_peer_id, c.sender_public_key))

ProofType == {"SingleNode", "Merkle"}

\* The bytes that are signed.  The subject is the content of a quote, whose own
\* timestamp is left out, and the payment timestamp of a merkle candidate.  The
\* bytes do not say which of the two was signed, and nothing rests on that.
bytes_for_sig(t) ==
    <<t.subject, t.price, t.rewards_address, t.committed_key_count, t.commitment_pin>>
bytes_to_sign(t) ==
    <<t.price, t.rewards_address, t.subject, t.committed_key_count, t.commitment_pin>>

\* A slip in SignedBytes: as before quotes were bound to commitments.
SignedBytesUnbound(terms) == <<terms.subject, terms.price, terms.rewards_address>>

SignedBytes(terms) ==
    IF terms.kind = "SingleNode" THEN bytes_for_sig(terms) ELSE bytes_to_sign(terms)

\* A PaymentQuote or a MerklePaymentCandidateNode.
Quote(key, terms) ==
    [terms |-> terms, pub_key |-> key,
     signature |-> Sign(key, "NoContext", SignedBytes(terms))]

Terms(u, price, address, n, pin) ==
    [kind |-> u.kind, subject |-> u.subject, price |-> price,
     rewards_address |-> address, committed_key_count |-> n, commitment_pin |-> pin]

verify_quote_content(q, expected_content) == q.terms.subject = expected_content

\* verify_quote_signature, verify_merkle_candidate_signature
VerifySignature(q) ==
    q.signature = Sign(q.pub_key, "NoContext", SignedBytes(q.terms))

-----------------------------------------------------------------------------
(* Checks of both sides *)

\* The commitments in some serialized sidecars, those too large left out.
SidecarCommitments(blobs) == {b.commitment : b \in {b \in blobs : b.fits}}

\* Slips in WithinCount and ForcedPrice.
WithinCountStrictly(terms) == terms.committed_key_count < MAX_COMMITMENT_KEY_COUNT
AnyPrice(terms) == TRUE

WithinCount(terms) == terms.committed_key_count <= MAX_COMMITMENT_KEY_COUNT

ForcedPrice(terms) == terms.price = calculate_price(terms.committed_key_count)

\* A quote decodes as one, and is of this content; a candidate decodes as one,
\* and is of this payment.
IsFor(q, u) ==
    \/ u.kind = "SingleNode" /\ q.terms.kind = "SingleNode"
                            /\ verify_quote_content(q, u.subject)
    \/ u.kind = "Merkle" /\ q.terms.kind = "Merkle" /\ q.terms.subject = u.subject

\* What can be checked without a commitment.
Stands(q, u) ==
    /\ IsFor(q, u) /\ VerifySignature(q)
    /\ WithinCount(q.terms) /\ ForcedPrice(q.terms)
    /\ q.terms.commitment_pin = NoPin => q.terms.committed_key_count = 0

\* Slips in Pinned: the commitment's peer id is not compared with its key; its
\* key not with the quote's.
PinnedUnbound(q, c) ==
    /\ verify_commitment_signature(c)
    /\ c.sender_public_key = q.pub_key
    /\ commitment_hash(c) = q.terms.commitment_pin
PinnedByAnyKey(q, c) ==
    /\ verify_commitment_signature(c)
    /\ PeerId[c.sender_public_key] = c.sender_peer_id
    /\ commitment_hash(c) = q.terms.commitment_pin

\* The gates before a commitment is trusted to be the one q pins.
Pinned(q, c) ==
    /\ verify_commitment_signature(c)
    /\ PeerId[c.sender_public_key] = c.sender_peer_id
    /\ c.sender_public_key = q.pub_key
    /\ commitment_hash(c) = q.terms.commitment_pin

CountsAgree(q, c) == c.key_count = q.terms.committed_key_count

\* What a client makes sure of before it pays on a response.
ResolvesBeforePay(r, u) ==
    /\ PeerId[r.quote.pub_key] = r.peer
    /\ Stands(r.quote, u)
    /\ r.quote.terms.commitment_pin # NoPin =>
           \E c \in SidecarCommitments(r.commitment) :
               Pinned(r.quote, c) /\ CountsAgree(r.quote, c)

\* What a storer makes of a quote, with the commitments it has at hand.
Judge(q, u, commitments) ==
    LET pinned == {c \in commitments : Pinned(q, c)}
    IN  IF ~ Stands(q, u) \/ \E c \in pinned : ~ CountsAgree(q, c) THEN "rejected"
        ELSE IF q.terms.commitment_pin # NoPin /\ pinned = {} THEN "unresolved"
        ELSE "accepted"

-----------------------------------------------------------------------------
(* Proof bytes *)

PROOF_TAG_SINGLE_NODE == 1
PROOF_TAG_MERKLE == 2

\* PaymentProof and MerklePaymentProof: their fields differ, and neither body
\* decodes as the other.
PaymentProof(quotes, sidecars) ==
    [peer_quotes |-> quotes, commitment_sidecars |-> sidecars]
MerklePaymentProof(quotes, sidecars) ==
    [candidate_nodes |-> quotes, commitment_sidecars |-> sidecars]

serialize_single_node_proof(proof) == [tag |-> PROOF_TAG_SINGLE_NODE, body |-> proof]
serialize_merkle_proof(proof) == [tag |-> PROOF_TAG_MERKLE, body |-> proof]

detect_proof_type(bytes) ==
    CASE bytes.tag = PROOF_TAG_SINGLE_NODE -> {"SingleNode"}
      [] bytes.tag = PROOF_TAG_MERKLE -> {"Merkle"}
      [] OTHER -> {}

\* The decoders return nothing on an error, the quotes and sidecars otherwise.
deserialize_single_node_proof(bytes) ==
    IF bytes.tag # PROOF_TAG_SINGLE_NODE \/ "peer_quotes" \notin DOMAIN bytes.body
    THEN {}
    ELSE {[quotes |-> bytes.body.peer_quotes,
           sidecars |-> bytes.body.commitment_sidecars]}

\* For callers that want the quotes only.
deserialize_proof(bytes) ==
    {[proof EXCEPT !.sidecars = {}] : proof \in deserialize_single_node_proof(bytes)}

deserialize_merkle_proof(bytes) ==
    IF bytes.tag # PROOF_TAG_MERKLE \/ "candidate_nodes" \notin DOMAIN bytes.body
    THEN {}
    ELSE {[quotes |-> bytes.body.candidate_nodes,
           sidecars |-> bytes.body.commitment_sidecars]}

\* Single-node proofs carry the commitments that came with the quotes, merkle
\* proofs none; before sidecars were moved, it was the other way round.
Forwards(u, legacy) == (u.kind = "Merkle") <=> legacy

\* The bytes of the proof of payment on some responses.
ProofBytes(u, responses, legacy) ==
    LET quotes == {[peer |-> r.peer, quote |-> r.quote] : r \in responses}
        sidecars == IF Forwards(u, legacy)
                    THEN UNION {r.commitment : r \in responses} ELSE {}
    IN  IF u.kind = "SingleNode"
        THEN serialize_single_node_proof(PaymentProof(quotes, sidecars))
        ELSE serialize_merkle_proof(MerklePaymentProof(quotes, sidecars))

\* A slip in Deserialize: the storer takes the decoder without sidecars.
DeserializeQuotesOnly(bytes) ==
    deserialize_proof(bytes) \cup deserialize_merkle_proof(bytes)

\* A storer reads a proof by its tag.
Deserialize(bytes) ==
    UNION {IF kind = "SingleNode" THEN deserialize_single_node_proof(bytes)
           ELSE deserialize_merkle_proof(bytes) : kind \in detect_proof_type(bytes)}

\* What a storer makes of a proof: every quote is judged, with the sidecars
\* and the commitments of its cache.
Outcome(u, cache, bytes) ==
    LET proofs == Deserialize(bytes)
        Judged(proof) == {Judge(e.quote, u, cache \cup SidecarCommitments(proof.sidecars)) :
                          e \in proof.quotes}
        judged == UNION {Judged(proof) : proof \in proofs}
        bound == \A proof \in proofs : \A e \in proof.quotes :
                     PeerId[e.quote.pub_key] = e.peer
    IN  IF proofs = {} \/ ~ bound \/ "rejected" \in judged THEN "rejected"
        ELSE IF "unresolved" \in judged THEN "unresolved" ELSE "accepted"

=============================================================================
