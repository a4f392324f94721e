--------------------------- MODULE QuoteBinding ---------------------------
(***************************************************************************)
(* Resolve before pay: who commits, quotes, pays and checks when.           *)
(* A node commits, in a signed statement, to the records it holds; its      *)
(* quote pins the commitment by hash and is priced by its count.  A client  *)
(* pays nothing it cannot resolve, and forwards the commitments in the      *)
(* proof of a single-node payment, not of a merkle payment.  A storer       *)
(* checks again, later, when the node may have committed anew and gossip    *)
(* may have brought the new commitment, the old one, both or none.          *)
(*                                                                         *)
(* The crate has the statements, their checks and encodings; the actors are *)
(* those of ant-client and ant-node, after the crate's comments on them.    *)
(***************************************************************************)
EXTENDS QuoteRecord

CONSTANTS
    Honest,           \* nodes that commit and quote by the rules
    Client,
    Careful,          \* clients that resolve before they pay
    LegacyBundler,    \* clients that bundle sidecars as the old releases did
    Storer,
    Leaves,           \* root -> the number of keys under it
    Wallet,           \* key -> the address its node is paid at
    OtherPrice,       \* prices off the formula, that a node may ask all the same
    Subject,          \* content addresses, and timestamps of merkle payments
    Forgeries,        \* commitments in circulation that their key did not sign
    NoCommitment,
    QuotesNeeded,     \* before a client pays
    CommitmentBound   \* how many commitments are ever signed

ASSUME ActorAssumption ==
    /\ Honest \subseteq Key /\ Careful \subseteq Client
    /\ Leaves \in [Root -> KeyCount] /\ Wallet \in [Key -> RewardsAddress]

ASSUME PriceAssumption == OtherPrice \subseteq Amount

ASSUME ForgeryAssumption ==
    \A c \in Forgeries : ~ verify_commitment_signature(c)

VARIABLES
    upload,           \* client -> what it wants to pay for, and how
    phase,            \* client -> "collecting" or "paid"
    collected,        \* client -> the quote responses it pays on
    current,          \* node -> its commitment
    published,        \* commitments signed so far
    quoted,           \* quotes honest nodes have signed
    known,            \* storer -> commitments it has by gossip or fetches
    puts,             \* PUTs sent: their client and proof bytes
    verdicts          \* how storers judged them

vars == <<upload, phase, collected, current, published, quoted, known, puts,
          verdicts>>
client == <<upload, phase, collected, puts>>
node == <<current, published, quoted>>

Upload == [kind : ProofType, subject : Subject]

Init ==
    /\ upload \in [Client -> Upload]
    /\ phase = [c \in Client |-> "collecting"]
    /\ collected = [c \in Client |-> {}]
    /\ current = [k \in Key |-> NoCommitment]
    /\ published = {} /\ quoted = {}
    /\ known = [s \in Storer |-> {}]
    /\ puts = {} /\ verdicts = {}

-----------------------------------------------------------------------------
(* Nodes *)

\* What a node may sign under its key: an honest one counts its keys, and
\* splits a claim that would be too large.
Statements(k) ==
    IF k \in Honest
    THEN {StorageCommitment(r, Leaves[r], PeerId[k], k) :
            r \in {r \in Root : Leaves[r] <= MAX_COMMITMENT_KEY_COUNT}}
    ELSE {StorageCommitment(r, n, PeerId[l], k) :
            r \in Root, n \in KeyCount, l \in Key}

\* A node commits, to other records than before: the old commitment stays in
\* gossip caches, in answers on their way and in proofs.
Rotate(k) ==
    /\ \E c \in Statements(k) :
           /\ current' = [current EXCEPT ![k] = c]
           /\ published' = published \cup {c}
    /\ Cardinality(published') <= CommitmentBound
    /\ UNCHANGED <<client, quoted, known, verdicts>>

Response(k, q, c) == [peer |-> PeerId[k], quote |-> q, commitment |-> c]

\* A quote of the current commitment, shipped with it; a baseline quote of a
\* node that has none yet.
HonestResponse(k, u) ==
    LET c == current[k]
    IN  IF c = NoCommitment
        THEN Response(k, Quote(k, Terms(u, calculate_price(0), Wallet[k], 0, NoPin)), {})
        ELSE Response(k, Quote(k, Terms(u, calculate_price(c.key_count), Wallet[k],
                                        c.key_count, commitment_hash(c))),
                      {[commitment |-> c, fits |-> TRUE]})

\* Any terms under the node's own key, for other content too, or a quote of
\* another node; beside it no commitment, or one of anybody, its bytes padded or
\* not.
OtherResponses(k, u) ==
    LET circulating == published \cup Forgeries
        prices == {calculate_price(n) : n \in KeyCount} \cup OtherPrice
        pins == {NoPin} \cup {commitment_hash(c) : c \in circulating}
        own == {Quote(k, terms) :
                   terms \in [kind : {u.kind}, subject : Subject, price : prices,
                              rewards_address : RewardsAddress,
                              committed_key_count : KeyCount, commitment_pin : pins]}
        beside == {{}} \cup {{[commitment |-> c, fits |-> fits]} :
                   c \in circulating, fits \in BOOLEAN}
    IN  {Response(k, q, blob) : q \in own \cup quoted, blob \in beside}

Responses(k, u) == IF k \in Honest THEN {HonestResponse(k, u)} ELSE OtherResponses(k, u)

-----------------------------------------------------------------------------
(* Clients *)

\* A client hears of a node, and pays on the response if it keeps it.
Collect(c, k) ==
    /\ phase[c] = "collecting" /\ Cardinality(collected[c]) < QuotesNeeded
    /\ \A r \in collected[c] : r.peer # PeerId[k]
    /\ \E r \in Responses(k, upload[c]) :
           /\ c \in Careful => ResolvesBeforePay(r, upload[c])
           /\ collected' = [collected EXCEPT ![c] = @ \cup {r}]
           /\ quoted' = IF k \in Honest THEN quoted \cup {r.quote} ELSE quoted
    /\ UNCHANGED <<upload, phase, current, published, known, puts, verdicts>>

\* The payment settles and the PUT goes out.
PayAndPut(c) ==
    /\ phase[c] = "collecting"
    /\ Cardinality(collected[c]) = QuotesNeeded
    /\ phase' = [phase EXCEPT ![c] = "paid"]
    /\ LET bytes == ProofBytes(upload[c], collected[c], c \in LegacyBundler)
       IN  puts' = puts \cup {[client |-> c, bytes |-> bytes]}
    /\ UNCHANGED <<upload, collected, node, known, verdicts>>

-----------------------------------------------------------------------------
(* Storers *)

\* A slip in Hear: the signature is not verified before a commitment is kept.
HearUnverified(s) ==
    /\ \E c \in published \cup Forgeries : known' = [known EXCEPT ![s] = @ \cup {c}]
    /\ UNCHANGED <<client, node, verdicts>>

\* Gossip or a fetch brings a commitment, of any age.
Hear(s) ==
    /\ \E c \in published : known' = [known EXCEPT ![s] = @ \cup {c}]
    /\ UNCHANGED <<client, node, verdicts>>

\* A cache entry is evicted, or the storer restarts.
Forget(s) ==
    /\ \E c \in known[s] : known' = [known EXCEPT ![s] = @ \ {c}]
    /\ UNCHANGED <<client, node, verdicts>>

Judging(s) ==
    /\ \E put \in puts :
           verdicts' = verdicts \cup
               {[storer |-> s, put |-> put,
                outcome |-> Outcome(upload[put.client], known[s], put.bytes)]}
    /\ UNCHANGED <<client, node, known>>

-----------------------------------------------------------------------------
Next ==
    \/ \E k \in Key : Rotate(k)
    \/ \E c \in Client : PayAndPut(c) \/ \E k \in Key : Collect(c, k)
    \/ \E s \in Storer : Hear(s) \/ Forget(s) \/ Judging(s)

Spec == Init /\ [][Next]_vars

-----------------------------------------------------------------------------
(* Properties *)

\* Every variable keeps its type.
TypeOK ==
    /\ upload \in [Client -> Upload]
    /\ phase \in [Client -> {"collecting", "paid"}]
    /\ collected = [c \in Client |-> collected[c]]
    /\ \A c \in Client : \A r \in collected[c] :
           /\ r.quote.pub_key \in Key /\ r.quote.terms.price \in Amount
           /\ r.quote.terms.rewards_address \in RewardsAddress
           /\ \E k \in Key : r.peer = PeerId[k]
    /\ current \in [Key -> {NoCommitment} \cup published]
    /\ \A k \in Key : current[k] \in {NoCommitment} \cup Statements(k)
    /\ published \subseteq UNION {Statements(k) : k \in Key}
    /\ \A q \in quoted : /\ q.pub_key \in Honest /\ q.terms.price \in Amount
                        /\ q.terms.rewards_address \in RewardsAddress
    /\ known \in [Storer -> SUBSET published]
    /\ \A put \in puts : put.client \in Client
    /\ \A v \in verdicts :
           /\ v.storer \in Storer /\ v.put \in puts
           /\ v.outcome \in {"accepted", "unresolved", "rejected"}

\* The price that node k, by what it signed under its own id, is bound to when
\* it quotes with this pin.
BoundPrices(k, pin) ==
    IF pin = NoPin THEN {calculate_price(0)}
    ELSE {calculate_price(c.key_count) :
             c \in {c \in published :
                    /\ commitment_hash(c) = pin
                    /\ c.sender_public_key = k /\ c.sender_peer_id = PeerId[k]
                    /\ c.key_count <= MAX_COMMITMENT_KEY_COUNT}}

BoundTo(q, peer) ==
    \E k \in Key : /\ peer = PeerId[k]
                   /\ q.terms.price \in BoundPrices(k, q.terms.commitment_pin)

\* "The client pays nothing it cannot resolve" (commitment.rs): whatever nodes
\* send, a careful client pays a node only the price of a commitment that node
\* signed, or the price of none, and for its own content.
PaysOnlyWhatIsBound ==
    \A c \in Careful : \A r \in collected[c] :
        BoundTo(r.quote, r.peer) /\ IsFor(r.quote, upload[c])

\* A storer accepts no proof, of a careful client or not, with a quote that its
\* node is not bound to (the checks of verify.rs and commitment.rs).
AcceptsOnlyWhatIsBound ==
    \A v \in verdicts : v.outcome = "accepted" =>
        \A proof \in Deserialize(v.put.bytes) : \A e \in proof.quotes :
            BoundTo(e.quote, e.peer)

\* Whatever price comes in a proof, a storer derives from it, before it checks
\* anything, the greatest count whose price it pays, and none that does not fit:
\* storers never differ by a rounding (derive_records_stored_from_price).
CountsAreTheGreatestPaid ==
    \A put \in puts : \A proof \in Deserialize(put.bytes) : \A e \in proof.quotes :
        LET price == e.quote.terms.price
            n == derive_records_stored_from_price(price)
        IN  /\ n \in Records
            /\ \A m \in Records : m <= n <=> calculate_price(m) <= price \/ m = 0

\* The count a storer derives from a price it accepts is the one that its node
\* signed in the commitment it pinned: the price alone tells what was committed
\* (derive_records_stored_from_price, "the inverse of calculate_price").
PricesTellTheCommittedCount ==
    \A v \in verdicts : v.outcome = "accepted" =>
        \A proof \in Deserialize(v.put.bytes) : \A e \in proof.quotes :
            LET pin == e.quote.terms.commitment_pin
                n == derive_records_stored_from_price(e.quote.terms.price)
            IN  \/ pin = NoPin /\ n = 0
                \/ \E c \in published : /\ commitment_hash(c) = pin /\ c.key_count = n
                                        /\ c.sender_public_key = e.quote.pub_key

\* What a careful client resolved and paid, no storer ever refuses, whatever
\* the nodes have committed to since and whatever gossip brought or lost; and
\* a storer that was sent the sidecars has all it needs to accept it
\* (PaymentProof::commitment_sidecars).
PaidProofsStand ==
    \A v \in verdicts : v.put.client \in Careful =>
        \/ v.outcome = "accepted"
        \/ /\ v.outcome = "unresolved"
           /\ ~ Forwards(upload[v.put.client], v.put.client \in LegacyBundler)

\* What a node can be convicted on: a quote it signed, against the commitment
\* that pins.
Convicts(q, c) ==
    VerifySignature(q) /\ Pinned(q, c) /\ ~ (CountsAgree(q, c) /\ ForcedPrice(q.terms))

\* "A count/pin mismatch is genuine same-key-signed evidence" (verify.rs): no
\* honest node is ever convicted, by any of its quotes held against any
\* commitment of any age, the quote's address and binding altered or not.
HonestAreNotConvicted ==
    \A q \in quoted, c \in published \cup Forgeries :
        /\ ~ Convicts(q, c)
        /\ \A address \in RewardsAddress, n \in KeyCount :
               ~ Convicts([q EXCEPT !.terms.rewards_address = address,
                                    !.terms.committed_key_count = n,
                                    !.terms.commitment_pin = commitment_hash(c)], c)

\* The rules leave honest nodes in: what one would answer now, any client can
\* resolve, at the greatest count too (MAX_COMMITMENT_KEY_COUNT).
HonestQuotesResolve ==
    \A c \in Client, k \in Honest :
        ResolvesBeforePay(HonestResponse(k, upload[c]), upload[c])

\* Every price that node k has bound itself to, by having signed a commitment
\* or by having none.
SignedPrices(k) ==
    {calculate_price(0)} \cup
    {calculate_price(c.key_count) :
        c \in {c \in published : /\ c.sender_public_key = k
                                 /\ c.sender_peer_id = PeerId[k]}}

CarefulPayments ==
    UNION {{[payer |-> c, node |-> r.quote.pub_key, price |-> r.quote.terms.price] :
               r \in collected[c]} : c \in {c \in Careful : phase[c] = "paid"}}

\* The abstract specification: prices are paid that nodes are bound to.
Promise == INSTANCE ResolveBeforePay WITH
    Node <- Key,
    Payer <- Careful,
    Price <- {calculate_price(n) : n \in KeyCount},
    baseline <- calculate_price(0),
    bound <- [k \in Key |-> SignedPrices(k)],
    paid <- CarefulPayments

\* The system keeps the promise of ResolveBeforePay.
KeepsPromise == Promise!Spec

=============================================================================
