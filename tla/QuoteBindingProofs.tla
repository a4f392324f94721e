------------------------ MODULE QuoteBindingProofs ------------------------
(***************************************************************************)
(* Proofs about QuoteRecord, QuoteBinding and the prices they are made of.  *)
(***************************************************************************)
EXTENDS QuoteBinding, WellFoundedInduction, TLAPS

-----------------------------------------------------------------------------
(* Prices *)

LEMMA ProductGrows ==
    ASSUME NEW a \in Nat, NEW b \in Nat, NEW c \in Nat, a <= b
    PROVE  a * c <= b * c /\ a * c \in Nat /\ b * c \in Nat
OBVIOUS

LEMMA QuotientOfProduct ==
    ASSUME NEW a \in Nat, NEW b \in Nat \ {0}
    PROVE  (a * b) \div b = a
<1>1. /\ (a * b) \div b \in Nat /\ b * ((a * b) \div b) <= a * b
      /\ a * b < b * ((a * b) \div b) + b
    OBVIOUS
<1> DEFINE d == (a * b) \div b
<1> HIDE DEF d
<1>2. d \in Nat /\ b * d <= a * b /\ a * b < b * d + b
    BY <1>1 DEF d
<1>3. d <= a
    BY <1>2, SMTT(40)
<1>4. a <= d
    BY <1>2, SMTT(40)
<1> QED  BY <1>2, <1>3, <1>4 DEF d

LEMMA SquareGrows ==
    ASSUME NEW a \in Nat, NEW b \in Nat, a < b
    PROVE  a * a < b * b /\ (a + 1) * (a + 1) <= b * b
BY SMTT(40)

LEMMA RootOfSquare ==
    ASSUME NEW n \in Nat
    PROVE  SquareRoot(n * n) = n
<1>1. n * n \in Nat /\ n <= n * n /\ n * n < (n + 1) * (n + 1)
    BY SMTT(40)
<1>2. ASSUME NEW r \in 0..(n * n), r * r <= n * n, n * n < (r + 1) * (r + 1)
      PROVE  r = n
  <2>1. r \in Nat
    BY <1>1
  <2>2. ~ (r < n)
    BY <1>1, <1>2, <2>1, SquareGrows
  <2>3. ~ (n < r)
    BY <1>1, <1>2, <2>1, SquareGrows
  <2> QED  BY <2>1, <2>2, <2>3
<1>3. n \in 0..(n * n)
    BY <1>1
<1> QED  BY <1>1, <1>2, <1>3 DEF SquareRoot

Less == {pair \in Nat \X Nat : pair[1] < pair[2]}

LEMMA LeastNumber ==
    ASSUME NEW T \in SUBSET Nat, T # {}
    PROVE  \E n \in T : \A m \in T : n <= m
<1>1. IsWellFoundedOn(Less, Nat)
    BY NatLessThanWellFounded DEF OpToRel, Less
<1>2. PICK n \in T : \A m \in T : <<m, n>> \notin Less
    BY <1>1, WFMin, Zenon
<1>3. ASSUME NEW m \in T PROVE n <= m
  <2>1. m < n => <<m, n>> \in Less
    BY DEF Less
  <2> QED  BY <1>2, <2>1
<1> QED  BY <1>3

\* Every number has an integer square root, which SquareRoot returns.
LEMMA RootOfNumber ==
    ASSUME NEW x \in Nat
    PROVE  LET r == SquareRoot(x)
           IN  r \in Nat /\ r * r <= x /\ x < (r + 1) * (r + 1)
<1> DEFINE T == {r \in Nat : x < (r + 1) * (r + 1)}
<1>1. x \in T
  <2>1. x < (x + 1) * (x + 1)
    BY SMTT(40)
  <2> QED  BY <2>1
<1>2. PICK r \in T : \A m \in T : r <= m
    BY <1>1, LeastNumber
<1>3. r \in 0..x
    BY <1>1, <1>2
<1>4. r * r <= x
  <2>1. CASE r = 0
    BY <2>1
  <2>2. CASE r # 0
    <3>1. r - 1 \in Nat /\ ~ (r <= r - 1) /\ (r - 1) + 1 = r
      BY <2>2
    <3>2. ~ (x < ((r - 1) + 1) * ((r - 1) + 1))
      BY <1>2, <3>1
    <3> QED  BY <3>1, <3>2, SMTT(40)
  <2> QED  BY <2>1, <2>2
<1>5. \E s \in 0..x : s * s <= x /\ x < (s + 1) * (s + 1)
    BY <1>2, <1>3, <1>4
<1> HIDE DEF T
<1>6. /\ SquareRoot(x) \in 0..x /\ SquareRoot(x) * SquareRoot(x) <= x
      /\ x < (SquareRoot(x) + 1) * (SquareRoot(x) + 1)
    BY <1>5 DEF SquareRoot
<1> QED  BY <1>6

\* Nothing saturates, and the division leaves no remainder.
LEMMA PriceFormula ==
    ASSUME NEW n \in Records
    PROVE  /\ calculate_price(n)
              = PRICE_BASELINE_WEI + (n * n) * PRICE_PER_RECORD_SQUARED_WEI
           /\ calculate_price(n) \in Amount
<1> DEFINE P == PRICE_PER_RECORD_SQUARED_WEI
           D == DIVISOR_SQUARED
           K == PRICE_COEFFICIENT_WEI
<1>1. /\ P \in Nat \ {0} /\ K \in Nat \ {0} /\ K = P * D /\ PRICE_BASELINE_WEI \in Nat
      /\ PRICING_DIVISOR \in Nat \ {0}
    BY CoefficientAssumption
<1>2. D \in Nat \ {0}
    BY <1>1, SMTT(40) DEF DIVISOR_SQUARED
<1> HIDE DEF P, D, K
<1>3. n \in Nat /\ RecordsMax \in Nat /\ n <= RecordsMax /\ AmountMax \in Nat
    BY WidthAssumption DEF Records
<1>4. n * n \in Nat /\ RecordsMax * RecordsMax \in Nat /\ n * n <= RecordsMax * RecordsMax
  <2>1. n * n <= RecordsMax * n /\ n * RecordsMax <= RecordsMax * RecordsMax
    BY <1>3, ProductGrows
  <2> QED  BY <1>3, <2>1
<1> DEFINE S == n * n
           T == RecordsMax * RecordsMax
<1>5. T * K + PRICE_BASELINE_WEI <= AmountMax
    BY WidthAssumption DEF K
<1> HIDE DEF S, T
<1>6. S \in Nat /\ T \in Nat /\ S <= T
    BY <1>4 DEF S, T
<1>7. S * K <= T * K /\ S * K \in Nat /\ T * K \in Nat
    BY <1>1, <1>6, ProductGrows
<1>8. S <= S * K
    BY <1>1, <1>6, SMTT(40)
<1>9. Saturated(S) = S /\ Saturated(S * K) = S * K
    BY <1>1, <1>3, <1>5, <1>6, <1>7, <1>8 DEF Saturated
<1>10. (S * K) \div D = S * P
  <2>1. S * K = (S * P) * D /\ S * P \in Nat
    BY <1>1, <1>2, <1>6, SMTT(40)
  <2> QED  BY <1>2, <2>1, QuotientOfProduct
<1>11. S * P \in Nat /\ S * P <= S * K
    BY <1>1, <1>2, <1>6, SMTT(40)
<1>12. /\ Saturated(PRICE_BASELINE_WEI + S * P) = PRICE_BASELINE_WEI + S * P
       /\ PRICE_BASELINE_WEI + S * P \in Amount
    BY <1>1, <1>3, <1>5, <1>7, <1>11 DEF Saturated, Amount
<1> QED  BY <1>9, <1>10, <1>12 DEF calculate_price, S, K, P, D

\* The count derived from the price of a count is the count: of every price
\* calculate_price gives, derive_records_stored_from_price is the inverse.
THEOREM PriceRoundTrip ==
    \A n \in Records : derive_records_stored_from_price(calculate_price(n)) = n
<1> SUFFICES ASSUME NEW n \in Records
             PROVE  derive_records_stored_from_price(calculate_price(n)) = n
    OBVIOUS
<1> DEFINE P == PRICE_PER_RECORD_SQUARED_WEI
           B == PRICE_BASELINE_WEI
           S == n * n
<1>1. n \in Nat /\ n <= RecordsMax /\ RecordsMax \in Nat
    BY WidthAssumption DEF Records
<1>2. P \in Nat \ {0} /\ B \in Nat
    BY CoefficientAssumption
<1>3. calculate_price(n) = B + S * P
    BY PriceFormula
<1>4. S \in Nat /\ (S = 0 => n = 0)
    BY <1>1, SMTT(40)
<1>5. SquareRoot(S) = n
    BY <1>1, RootOfSquare
<1> HIDE DEF P, B, S
<1>6. CASE S = 0
  <2>1. calculate_price(n) = B
    BY <1>2, <1>3, <1>6
  <2> QED  BY <1>2, <1>4, <1>6, <2>1 DEF derive_records_stored_from_price, B
<1>7. CASE S # 0
  <2>1. S * P \in Nat \ {0}
    BY <1>2, <1>4, <1>7, SMTT(40)
  <2>2. /\ ~ (calculate_price(n) <= B) /\ calculate_price(n) - B = S * P
    BY <1>2, <1>3, <2>1
  <2>3. (S * P) \div P = S
    BY <1>2, <1>4, QuotientOfProduct
  <2>4. derive_records_stored_from_price(calculate_price(n))
        = IF SquareRoot(S) > RecordsMax THEN RecordsMax ELSE SquareRoot(S)
    BY <2>2, <2>3 DEF derive_records_stored_from_price, B, P
  <2> QED  BY <1>1, <1>5, <2>4
<1> QED  BY <1>6, <1>7

\* The squares up to x are those of the numbers up to its root.
LEMMA SquaresUpTo ==
    ASSUME NEW x \in Nat, NEW m \in Nat
    PROVE  m * m <= x <=> m <= SquareRoot(x)
<1> DEFINE r == SquareRoot(x)
<1>1. r \in Nat /\ r * r <= x /\ x < (r + 1) * (r + 1)
    BY RootOfNumber
<1> HIDE DEF r
<1>2. m * m \in Nat /\ r * r \in Nat
    BY <1>1
<1>3. ASSUME m <= r PROVE m * m <= x
  <2>1. CASE m = r
    BY <1>1, <2>1
  <2>2. CASE m < r
    BY <1>1, <1>2, <2>2, SquareGrows
  <2> QED  BY <1>1, <1>3, <2>1, <2>2
<1>4. ASSUME r < m PROVE ~ (m * m <= x)
  <2>1. (r + 1) * (r + 1) <= m * m
    BY <1>1, <1>4, SquareGrows
  <2> DEFINE a == (r + 1) * (r + 1)
             b == m * m
  <2>2. a \in Nat /\ b \in Nat /\ a <= b /\ x < a
    BY <1>1, <1>2, <2>1
  <2> HIDE DEF a, b
  <2>3. ~ (b <= x)
    BY <2>2
  <2> QED  BY <2>3 DEF b
<1>5. m <= r \/ r < m
    BY <1>1
<1> QED  BY <1>3, <1>4, <1>5 DEF r

LEMMA ProductsUpTo ==
    ASSUME NEW e \in Nat, NEW s \in Nat, NEW b \in Nat \ {0}
    PROVE  /\ e \div b \in Nat
           /\ s * b <= e <=> s <= e \div b
<1> DEFINE d == e \div b
<1>1. d \in Nat /\ b * d <= e /\ e < b * d + b
    OBVIOUS
<1> HIDE DEF d
<1>2. ASSUME s <= d PROVE s * b <= e
    BY <1>1, <1>2, SMTT(40)
<1>3. ASSUME d < s PROVE ~ (s * b <= e)
    BY <1>1, <1>3, SMTT(40)
<1> QED  BY <1>1, <1>2, <1>3 DEF d

\* Whatever the price, the count derived from it is the greatest whose price it
\* pays, and zero where it pays none (derive_records_stored_from_price).
THEOREM GreatestCount ==
    \A price \in Amount, m \in Records :
        LET n == derive_records_stored_from_price(price)
        IN  /\ n \in Records
            /\ m <= n <=> calculate_price(m) <= price \/ m = 0
<1> SUFFICES ASSUME NEW price \in Amount, NEW m \in Records
             PROVE  LET n == derive_records_stored_from_price(price)
                    IN  /\ n \in Records
                        /\ m <= n <=> calculate_price(m) <= price \/ m = 0
    OBVIOUS
<1> DEFINE P == PRICE_PER_RECORD_SQUARED_WEI
           B == PRICE_BASELINE_WEI
           S == m * m
           n == derive_records_stored_from_price(price)
<1>1. m \in Nat /\ m <= RecordsMax /\ RecordsMax \in Nat /\ price \in Nat
    BY WidthAssumption DEF Records, Amount
<1>2. P \in Nat \ {0} /\ B \in Nat
    BY CoefficientAssumption
<1>3. calculate_price(m) = B + S * P
    BY PriceFormula
<1>4. S \in Nat /\ (S = 0 <=> m = 0)
    BY <1>1, SMTT(40)
<1> HIDE DEF P, B, S
<1>5. S * P \in Nat /\ (S * P = 0 <=> m = 0)
    BY <1>2, <1>4, SMTT(40)
<1>6. CASE price <= B
  <2>1. n = 0
    BY <1>6 DEF derive_records_stored_from_price, B
  <2>2. calculate_price(m) <= price => m = 0
    BY <1>1, <1>2, <1>3, <1>5, <1>6
  <2> QED  BY <1>1, <2>1, <2>2 DEF Records
<1>7. CASE ~ (price <= B)
  <2> DEFINE e == price - B
             q == e \div P
             root == SquareRoot(q)
  <2>1. e \in Nat
    BY <1>1, <1>2, <1>7
  <2>2. n = IF root > RecordsMax THEN RecordsMax ELSE root
    BY <1>7 DEF derive_records_stored_from_price, B, P
  <2>3. calculate_price(m) <= price <=> S * P <= e
    BY <1>1, <1>2, <1>3, <1>5, <1>7
  <2> HIDE DEF e, n
  <2>4. q \in Nat /\ (S * P <= e <=> S <= q)
    BY <1>2, <1>4, <2>1, ProductsUpTo
  <2> HIDE DEF q
  <2>5. S <= q <=> m <= root
    BY <1>1, <2>4, SquaresUpTo DEF S
  <2>6. root \in Nat
    BY <2>4, RootOfNumber
  <2> HIDE DEF root
  <2>7. n \in Records /\ (m <= n <=> m <= root)
    BY <1>1, <2>2, <2>6 DEF Records
  <2>8. m = 0 => m <= root
    BY <1>1, <2>6
  <2> QED  BY <2>3, <2>4, <2>5, <2>7, <2>8 DEF n
<1> QED  BY <1>6, <1>7

\* Every record more makes the price strictly greater, up to the last one its
\* type counts: the saturating arithmetic of calculate_price never binds.
THEOREM PricesClimb ==
    ASSUME NEW m \in Records, NEW n \in Records, m < n
    PROVE  calculate_price(m) < calculate_price(n) /\ calculate_price(n) <= AmountMax
<1>1. derive_records_stored_from_price(calculate_price(m)) = m
    BY PriceRoundTrip
<1>2. /\ calculate_price(m) \in Amount /\ calculate_price(n) \in Amount
    BY PriceFormula
<1>3. calculate_price(m) \in Nat /\ calculate_price(n) \in Nat
      /\ calculate_price(n) <= AmountMax
    BY <1>2, WidthAssumption DEF Amount
<1>4. m \in Nat /\ n \in Nat
    BY WidthAssumption DEF Records
<1>5. n <= m <=> calculate_price(n) <= calculate_price(m) \/ n = 0
    BY <1>1, <1>2, GreatestCount
<1> QED  BY <1>3, <1>4, <1>5

\* What Pricing assumes of its constants is true of those of pricing.rs, with
\* 256-bit amounts and 64-bit counts: no price of the source ever saturates, and
\* every theorem about prices is about the source's.
THEOREM SourceConstantsFit ==
    LET BASELINE == 3906250000000000
        K == 35156250000000000
        D == 6000
        U256 == 115792089237316195423570985008687907853269984665640564039457584007913129639935
        U64 == 18446744073709551615
        Increment == K \div (D * D)
    IN  /\ BASELINE \in Nat /\ K \in Nat \ {0} /\ D \in Nat \ {0}
        /\ Increment \in Nat \ {0} /\ K = Increment * (D * D)
        /\ U256 \in Nat /\ U64 \in Nat \ {0}
        /\ U64 * U64 * K + BASELINE <= U256
OBVIOUS

-----------------------------------------------------------------------------
(* Values *)

LEMMA StatementFields ==
    ASSUME NEW k \in Key, NEW c \in Statements(k)
    PROVE  /\ verify_commitment_signature(c) /\ c.sender_public_key = k
           /\ k \in Honest => /\ c.sender_peer_id = PeerId[k]
                              /\ c.key_count <= MAX_COMMITMENT_KEY_COUNT
           /\ c.key_count \in KeyCount
<1>1. PICK r \in Root, n \in KeyCount, l \in Key :
          /\ c = StorageCommitment(r, n, PeerId[l], k)
          /\ k \in Honest => n <= MAX_COMMITMENT_KEY_COUNT /\ l = k
  <2>1. CASE k \in Honest
    BY <2>1, ActorAssumption DEF Statements
  <2>2. CASE k \notin Honest
    BY <2>2 DEF Statements
  <2> QED  BY <2>1, <2>2
<1>2. /\ c.root = r /\ c.key_count = n /\ c.sender_peer_id = PeerId[l]
      /\ c.sender_public_key = k
      /\ c.signature = Sign(k, "DOMAIN_COMMITMENT",
                            commitment_signed_payload(r, n, PeerId[l], k))
    BY <1>1 DEF StorageCommitment
<1> QED  BY <1>1, <1>2 DEF verify_commitment_signature

\* A pin resolves to one commitment.
LEMMA HashIsInjective ==
    ASSUME NEW a, NEW b, commitment_hash(a) = commitment_hash(b)
    PROVE  a = b
<1>1. commitment_hash(a).of = a /\ commitment_hash(b).of = b
    BY DEF commitment_hash
<1> QED  BY <1>1

LEMMA PinnedOnce ==
    ASSUME NEW q, NEW a, NEW b, Pinned(q, a), Pinned(q, b)
    PROVE  a = b
<1>1. commitment_hash(a) = commitment_hash(b)
    BY DEF Pinned
<1> QED  BY <1>1, HashIsInjective

LEMMA QuoteFields ==
    ASSUME NEW k, NEW terms
    PROVE  /\ Quote(k, terms).terms = terms /\ Quote(k, terms).pub_key = k
           /\ VerifySignature(Quote(k, terms))
BY DEF Quote, VerifySignature

LEMMA TermsFields ==
    ASSUME NEW u, NEW price, NEW address, NEW n, NEW pin
    PROVE  /\ Terms(u, price, address, n, pin).kind = u.kind
           /\ Terms(u, price, address, n, pin).subject = u.subject
           /\ Terms(u, price, address, n, pin).price = price
           /\ Terms(u, price, address, n, pin).rewards_address = address
           /\ Terms(u, price, address, n, pin).committed_key_count = n
           /\ Terms(u, price, address, n, pin).commitment_pin = pin
BY DEF Terms

LEMMA JudgeAccepts ==
    ASSUME NEW q, NEW u, NEW K, Judge(q, u, K) = "accepted"
    PROVE  /\ Stands(q, u)
           /\ q.terms.commitment_pin # NoPin =>
                  \E c \in K : Pinned(q, c) /\ CountsAgree(q, c)
BY DEF Judge

LEMMA JudgeRejects ==
    ASSUME NEW q, NEW u, NEW K, Stands(q, u),
           \A c \in K : Pinned(q, c) => CountsAgree(q, c)
    PROVE  /\ Judge(q, u, K) # "rejected"
           /\ (\E c \in K : Pinned(q, c)) => Judge(q, u, K) = "accepted"
           /\ q.terms.commitment_pin = NoPin => Judge(q, u, K) = "accepted"
BY DEF Judge

-----------------------------------------------------------------------------
(* Proof bytes *)

ProofEntries(responses) == {[peer |-> r.peer, quote |-> r.quote] : r \in responses}

BundledSidecars(u, responses, legacy) ==
    IF Forwards(u, legacy) THEN UNION {r.commitment : r \in responses} ELSE {}

\* What is bundled is what is read: the tag selects the decoder of the body.
LEMMA BytesRoundTrip ==
    ASSUME NEW u, u.kind \in ProofType, NEW responses, NEW legacy
    PROVE  Deserialize(ProofBytes(u, responses, legacy))
           = {[quotes |-> ProofEntries(responses),
               sidecars |-> BundledSidecars(u, responses, legacy)]}
<1> DEFINE quotes == ProofEntries(responses)
           sidecars == BundledSidecars(u, responses, legacy)
           bytes == ProofBytes(u, responses, legacy)
<1>1. CASE u.kind = "SingleNode"
  <2>1. bytes = [tag |-> PROOF_TAG_SINGLE_NODE,
                 body |-> [peer_quotes |-> quotes, commitment_sidecars |-> sidecars]]
    BY <1>1 DEF ProofBytes, serialize_single_node_proof, PaymentProof,
                ProofEntries, BundledSidecars
  <2>2. detect_proof_type(bytes) = {"SingleNode"}
    BY <2>1 DEF detect_proof_type, PROOF_TAG_MERKLE, PROOF_TAG_SINGLE_NODE
  <2>3. "peer_quotes" \in DOMAIN bytes.body
    BY <2>1
  <2>4. deserialize_single_node_proof(bytes)
        = {[quotes |-> quotes, sidecars |-> sidecars]}
    BY <2>1, <2>3 DEF deserialize_single_node_proof
  <2> QED  BY <2>2, <2>4 DEF Deserialize
<1>2. CASE u.kind = "Merkle"
  <2>1. bytes = [tag |-> PROOF_TAG_MERKLE,
                 body |-> [candidate_nodes |-> quotes,
                           commitment_sidecars |-> sidecars]]
    BY <1>2 DEF ProofBytes, serialize_merkle_proof, MerklePaymentProof,
                ProofEntries, BundledSidecars
  <2>2. detect_proof_type(bytes) = {"Merkle"}
    BY <2>1 DEF detect_proof_type, PROOF_TAG_MERKLE, PROOF_TAG_SINGLE_NODE
  <2>3. "candidate_nodes" \in DOMAIN bytes.body
    BY <2>1
  <2>4. deserialize_merkle_proof(bytes)
        = {[quotes |-> quotes, sidecars |-> sidecars]}
    BY <2>1, <2>3 DEF deserialize_merkle_proof
  <2> QED  BY <2>2, <2>4 DEF Deserialize
<1> QED  BY <1>1, <1>2 DEF ProofType

\* The commitments a storer has at hand for the proof of some responses.
AtHand(u, cache, responses, legacy) ==
    cache \cup SidecarCommitments(BundledSidecars(u, responses, legacy))

LEMMA OutcomeOfProof ==
    ASSUME NEW u, u.kind \in ProofType, NEW cache, NEW responses, NEW legacy
    PROVE  LET judged == {Judge(r.quote, u, AtHand(u, cache, responses, legacy)) :
                          r \in responses}
               outcome == Outcome(u, cache, ProofBytes(u, responses, legacy))
               bound == \A r \in responses : PeerId[r.quote.pub_key] = r.peer
           IN  outcome = IF ~ bound \/ "rejected" \in judged THEN "rejected"
                         ELSE IF "unresolved" \in judged THEN "unresolved"
                         ELSE "accepted"
<1> DEFINE quotes == ProofEntries(responses)
           sidecars == BundledSidecars(u, responses, legacy)
           proof == [quotes |-> quotes, sidecars |-> sidecars]
           bytes == ProofBytes(u, responses, legacy)
           judged == {Judge(r.quote, u, AtHand(u, cache, responses, legacy)) :
                          r \in responses}
<1> DEFINE J(q) == Judge(q, u, AtHand(u, cache, responses, legacy))
           Own(e) == PeerId[e.quote.pub_key] = e.peer
<1>1. Deserialize(bytes) = {proof}
    BY BytesRoundTrip
<1>2. /\ \A e \in quotes : \E r \in responses : e.quote = r.quote /\ e.peer = r.peer
      /\ \A r \in responses : \E e \in quotes : e.quote = r.quote /\ e.peer = r.peer
  <2>1. ASSUME NEW e \in quotes
        PROVE  \E r \in responses : e.quote = r.quote /\ e.peer = r.peer
    <3>1. PICK r \in responses : e = [peer |-> r.peer, quote |-> r.quote]
      BY DEF ProofEntries
    <3> QED  BY <3>1
  <2>2. ASSUME NEW r \in responses
        PROVE  \E e \in quotes : e.quote = r.quote /\ e.peer = r.peer
    <3>1. [peer |-> r.peer, quote |-> r.quote] \in quotes
      BY DEF ProofEntries
    <3> QED  BY <3>1
  <2> QED  BY <2>1, <2>2
<1>3. {J(e.quote) : e \in quotes} = judged
  <2> HIDE DEF J, quotes
  <2>1. {J(e.quote) : e \in quotes} = {J(r.quote) : r \in responses}
    BY <1>2
  <2> QED  BY <2>1 DEF J
<1>4. (\A e \in quotes : Own(e)) <=> \A r \in responses : Own(r)
  <2> HIDE DEF quotes
  <2> QED  BY <1>2
<1>5. proof.quotes = quotes /\ cache \cup SidecarCommitments(proof.sidecars)
      = AtHand(u, cache, responses, legacy)
    BY DEF AtHand
<1> HIDE DEF quotes, sidecars, proof, bytes, judged
<1>6. Outcome(u, cache, bytes)
      = IF ~ (\A e \in quotes : Own(e)) \/ "rejected" \in judged THEN "rejected"
        ELSE IF "unresolved" \in judged THEN "unresolved" ELSE "accepted"
  <2>1. UNION {{Judge(e.quote, u, cache \cup SidecarCommitments(p.sidecars)) :
                  e \in p.quotes} : p \in Deserialize(bytes)} = judged
    <3> DEFINE Judged(p) == {Judge(e.quote, u, cache \cup SidecarCommitments(p.sidecars)) :
                                e \in p.quotes}
    <3>1. Judged(proof) = judged
      BY <1>3, <1>5
    <3> HIDE DEF Judged
    <3>2. {Judged(p) : p \in Deserialize(bytes)} = {judged}
      BY <1>1, <3>1
    <3>3. UNION {Judged(p) : p \in Deserialize(bytes)} = judged
      BY <3>2
    <3> QED  BY <3>3 DEF Judged
  <2>2. (\A p \in Deserialize(bytes) : \A e \in p.quotes : Own(e))
        <=> \A e \in quotes : Own(e)
    BY <1>1, <1>5
  <2>3. Deserialize(bytes) # {}
    BY <1>1
  <2> QED  BY <2>1, <2>2, <2>3 DEF Outcome
<1> QED  BY <1>4, <1>6 DEF judged, bytes

LEMMA PinsDiffer ==
    ASSUME NEW c
    PROVE  commitment_hash(c) # NoPin
<1>1. commitment_hash(c).domain = "DOMAIN_COMMITMENT_HASH" /\ NoPin.domain = "None"
    BY DEF commitment_hash, NoPin
<1> QED  BY <1>1

-----------------------------------------------------------------------------
(* The inductive invariant *)

\* What came with a response is in circulation, and careful clients kept only
\* what they resolved.
ResponsesReal ==
    \A c \in Client : \A r \in collected[c] :
        /\ \A b \in r.commitment : b.commitment \in published \cup Forgeries
        /\ c \in Careful => ResolvesBeforePay(r, upload[c])

\* An honest node quoted by a commitment of its own, or without any.
QuotesReal ==
    \A q \in quoted : \E k \in Honest, u \in Upload :
        \/ q = Quote(k, Terms(u, calculate_price(0), Wallet[k], 0, NoPin))
        \/ \E c \in published :
               q = Quote(k, Terms(u, calculate_price(c.key_count), Wallet[k], c.key_count,
                                  commitment_hash(c)))

\* The proof of a PUT is that of its client's payment.
PutsReal ==
    \A put \in puts :
        /\ phase[put.client] = "paid"
        /\ put.bytes = ProofBytes(upload[put.client], collected[put.client],
                                  put.client \in LegacyBundler)

\* A verdict was reached with commitments that are published.
VerdictsReal ==
    \A v \in verdicts : \E cache \in SUBSET published :
        v.outcome = Outcome(upload[v.put.client], cache, v.put.bytes)

IInv == TypeOK /\ ResponsesReal /\ QuotesReal /\ PutsReal /\ VerdictsReal

LEMMA InitHolds == Init => IInv
BY DEF Init, IInv, TypeOK, ResponsesReal, QuotesReal, PutsReal, VerdictsReal

LEMMA RotateKeeps ==
    ASSUME IInv, NEW k \in Key, Rotate(k)
    PROVE  IInv'
<1> USE DEF IInv
<1>1. PICK c \in Statements(k) :
          current' = [current EXCEPT ![k] = c] /\ published' = published \cup {c}
    BY DEF Rotate
<1>2. UNCHANGED <<upload, phase, collected, puts, quoted, known, verdicts>>
    BY DEF Rotate, client
<1>3. TypeOK'
  <2>1. current' \in [Key -> {NoCommitment} \cup published']
    BY <1>1 DEF TypeOK
  <2>2. \A l \in Key : current'[l] \in {NoCommitment} \cup Statements(l)
    BY <1>1 DEF TypeOK
  <2>3. published' \subseteq UNION {Statements(l) : l \in Key}
    BY <1>1 DEF TypeOK
  <2>4. known' \in [Storer -> SUBSET published']
    BY <1>1, <1>2 DEF TypeOK
  <2> QED  BY <1>2, <2>1, <2>2, <2>3, <2>4 DEF TypeOK
<1>4. ResponsesReal'
    BY <1>1, <1>2 DEF ResponsesReal
<1>5. QuotesReal'
    BY <1>1, <1>2 DEF QuotesReal
<1>6. PutsReal'
    BY <1>2 DEF PutsReal
<1>7. VerdictsReal'
    BY <1>1, <1>2 DEF VerdictsReal
<1> QED  BY <1>3, <1>4, <1>5, <1>6, <1>7

LEMMA CountsAreRecords ==
    KeyCount \subseteq Records /\ 0 \in Records
BY CountAssumption

\* An honest node answers with a quote of its own.
LEMMA HonestResponseFields ==
    ASSUME TypeOK, NEW k \in Honest, NEW u
    PROVE  LET r == HonestResponse(k, u)
           IN  /\ r.peer = PeerId[k] /\ r.quote.pub_key = k
               /\ r.quote.terms.price \in Amount
               /\ r.quote.terms.rewards_address = Wallet[k]
               /\ \A b \in r.commitment : b.commitment \in published
               /\ \/ r.quote = Quote(k, Terms(u, calculate_price(0), Wallet[k], 0, NoPin))
                  \/ \E c \in published :
                         /\ r.quote = Quote(k, Terms(u, calculate_price(c.key_count), Wallet[k],
                                                c.key_count, commitment_hash(c)))
                         /\ c \in Statements(k)
                         /\ r.commitment = {[commitment |-> c, fits |-> TRUE]}
<1> DEFINE r == HonestResponse(k, u)
<1>1. k \in Key
    BY ActorAssumption
<1>2. CASE current[k] = NoCommitment
  <2>1. r = Response(k, Quote(k, Terms(u, calculate_price(0), Wallet[k], 0, NoPin)), {})
    BY <1>2 DEF HonestResponse
  <2> QED  BY <2>1, QuoteFields, TermsFields, CountsAreRecords, PriceFormula
           DEF Response
<1>3. CASE current[k] # NoCommitment
  <2> DEFINE c == current[k]
             q == Quote(k, Terms(u, calculate_price(c.key_count), Wallet[k], c.key_count,
                                 commitment_hash(c)))
  <2>1. r = Response(k, q, {[commitment |-> c, fits |-> TRUE]})
    BY <1>3 DEF HonestResponse
  <2>2. c \in published /\ c \in Statements(k)
    BY <1>1, <1>3 DEF TypeOK
  <2>3. /\ q.pub_key = k /\ q.terms.price \in Amount
        /\ q.terms.rewards_address = Wallet[k]
    <3>1. c.key_count \in Records
      BY <1>1, <2>2, StatementFields, CountsAreRecords
    <3>2. /\ q.pub_key = k /\ q.terms.price = calculate_price(c.key_count)
          /\ q.terms.rewards_address = Wallet[k]
      BY QuoteFields, TermsFields
    <3> HIDE DEF q, c
    <3> QED  BY <3>1, <3>2, PriceFormula
  <2> HIDE DEF q, c
  <2>4. /\ r.peer = PeerId[k] /\ r.quote = q
        /\ r.commitment = {[commitment |-> c, fits |-> TRUE]}
    BY <2>1 DEF Response
  <2>5. \A b \in r.commitment : b.commitment = c
    BY <2>4
  <2> QED  BY <2>2, <2>3, <2>4, <2>5 DEF q
<1> QED  BY <1>2, <1>3

LEMMA ResponseFields ==
    ASSUME TypeOK, NEW k \in Key, NEW u, NEW r \in Responses(k, u)
    PROVE  /\ r.peer = PeerId[k] /\ r.quote.pub_key \in Key
           /\ r.quote.terms.price \in Amount
           /\ r.quote.terms.rewards_address \in RewardsAddress
           /\ \A b \in r.commitment : b.commitment \in published \cup Forgeries
<1>1. CASE k \in Honest
    BY <1>1, HonestResponseFields, ActorAssumption DEF Responses
<1>2. CASE k \notin Honest
  <2> DEFINE circulating == published \cup Forgeries
             prices == {calculate_price(n) : n \in KeyCount} \cup OtherPrice
             pins == {NoPin} \cup {commitment_hash(c) : c \in circulating}
             own == {Quote(k, terms) :
                        terms \in [kind : {u.kind}, subject : Subject, price : prices,
                                   rewards_address : RewardsAddress,
                                   committed_key_count : KeyCount,
                                   commitment_pin : pins]}
             beside == {{}} \cup {{[commitment |-> c, fits |-> fits]} :
                        c \in circulating, fits \in BOOLEAN}
  <2>1. PICK q \in own \cup quoted, blob \in beside : r = Response(k, q, blob)
    BY <1>2 DEF Responses, OtherResponses
  <2>2. /\ q.pub_key \in Key /\ q.terms.price \in Amount
        /\ q.terms.rewards_address \in RewardsAddress
    <3>1. prices \subseteq Amount
      BY CountsAreRecords, PriceFormula, PriceAssumption
    <3>2. ASSUME q \in own
          PROVE  /\ q.pub_key = k /\ q.terms.price \in prices
                 /\ q.terms.rewards_address \in RewardsAddress
      <4> HIDE DEF prices
      <4>1. PICK terms : /\ q = Quote(k, terms) /\ terms.price \in prices
                         /\ terms.rewards_address \in RewardsAddress
        BY <3>2
      <4> QED  BY <4>1, QuoteFields
    <3>3. ASSUME q \in quoted
          PROVE  /\ q.pub_key \in Key /\ q.terms.price \in Amount
                 /\ q.terms.rewards_address \in RewardsAddress
      BY <3>3, ActorAssumption DEF TypeOK
    <3> HIDE DEF own, prices
    <3> QED  BY <2>1, <3>1, <3>2, <3>3
  <2>3. \A b \in blob : b.commitment \in circulating
    OBVIOUS
  <2> HIDE DEF own, beside
  <2> QED  BY <2>1, <2>2, <2>3 DEF Response
<1> QED  BY <1>1, <1>2

LEMMA CollectKeeps ==
    ASSUME IInv, NEW c \in Client, NEW k \in Key, Collect(c, k)
    PROVE  IInv'
<1> USE DEF IInv
<1>1. PICK r \in Responses(k, upload[c]) :
          /\ c \in Careful => ResolvesBeforePay(r, upload[c])
          /\ collected' = [collected EXCEPT ![c] = @ \cup {r}]
          /\ quoted' = IF k \in Honest THEN quoted \cup {r.quote} ELSE quoted
    BY DEF Collect
<1>2. UNCHANGED <<upload, phase, current, published, known, puts, verdicts>>
    BY DEF Collect
<1>3. /\ r.peer = PeerId[k] /\ r.quote.pub_key \in Key
      /\ r.quote.terms.price \in Amount
      /\ r.quote.terms.rewards_address \in RewardsAddress
      /\ \A b \in r.commitment : b.commitment \in published \cup Forgeries
    BY <1>1, ResponseFields
<1>4. upload[c] \in Upload
    BY DEF TypeOK
<1>5. /\ collected' = [d \in Client |-> collected'[d]]
      /\ \A d \in Client : collected'[d] = IF d = c THEN collected[c] \cup {r}
                                           ELSE collected[d]
    BY <1>1 DEF TypeOK
<1>6. \A q \in quoted' : q \in quoted \/ (q = r.quote /\ k \in Honest)
    BY <1>1
<1>7. k \in Honest =>
      /\ r.quote.pub_key = k
      /\ \/ r.quote = Quote(k, Terms(upload[c], calculate_price(0), Wallet[k], 0, NoPin))
         \/ \E s \in published :
                r.quote = Quote(k, Terms(upload[c], calculate_price(s.key_count), Wallet[k],
                                         s.key_count, commitment_hash(s)))
    BY <1>1, HonestResponseFields DEF Responses
<1>8. TypeOK'
  <2>1. \A d \in Client : \A p \in collected'[d] :
            /\ p.quote.pub_key \in Key /\ p.quote.terms.price \in Amount
            /\ p.quote.terms.rewards_address \in RewardsAddress
            /\ \E l \in Key : p.peer = PeerId[l]
    BY <1>3, <1>5 DEF TypeOK
  <2>2. ASSUME NEW q \in quoted'
        PROVE  /\ q.pub_key \in Honest /\ q.terms.price \in Amount
               /\ q.terms.rewards_address \in RewardsAddress
    <3>1. CASE q \in quoted
      BY <3>1 DEF TypeOK
    <3>2. CASE q = r.quote /\ k \in Honest
      BY <3>2, <1>3, <1>7
    <3> QED  BY <1>6, <3>1, <3>2
  <2> QED  BY <1>2, <1>5, <2>1, <2>2 DEF TypeOK
<1>9. ResponsesReal'
    BY <1>1, <1>2, <1>3, <1>5 DEF ResponsesReal
<1>10. QuotesReal'
    BY <1>2, <1>4, <1>6, <1>7 DEF QuotesReal
<1>11. PutsReal'
  <2>1. \A put \in puts : collected'[put.client] = collected[put.client]
    BY <1>5 DEF PutsReal, TypeOK, Collect
  <2> QED  BY <1>2, <2>1 DEF PutsReal
<1>12. VerdictsReal'
    BY <1>2 DEF VerdictsReal
<1> QED  BY <1>8, <1>9, <1>10, <1>11, <1>12

LEMMA PayAndPutKeeps ==
    ASSUME IInv, NEW c \in Client, PayAndPut(c)
    PROVE  IInv'
<1> USE DEF IInv
<1> DEFINE bytes == ProofBytes(upload[c], collected[c], c \in LegacyBundler)
           sent == [client |-> c, bytes |-> bytes]
<1>1. /\ phase[c] = "collecting" /\ phase' = [phase EXCEPT ![c] = "paid"]
      /\ puts' = puts \cup {sent}
    BY DEF PayAndPut
<1>2. UNCHANGED <<upload, collected, current, published, quoted, known, verdicts>>
    BY DEF PayAndPut, node
<1>3. TypeOK'
  <2>1. phase' \in [Client -> {"collecting", "paid"}]
    BY <1>1 DEF TypeOK
  <2>2. \A put \in puts' : put.client \in Client
    BY <1>1 DEF TypeOK
  <2> QED  BY <1>1, <1>2, <2>1, <2>2 DEF TypeOK
<1>4. PutsReal'
  <2>1. ASSUME NEW put \in puts'
        PROVE  /\ phase'[put.client] = "paid"
               /\ put.bytes = ProofBytes(upload[put.client], collected[put.client],
                                         put.client \in LegacyBundler)
    <3>1. CASE put \in puts
      BY <1>1, <3>1 DEF PutsReal, TypeOK
    <3>2. CASE put = sent
      <4>1. put.client = c /\ put.bytes = bytes
        BY <3>2
      <4> QED  BY <1>1, <4>1 DEF TypeOK
    <3> QED  BY <1>1, <3>1, <3>2
  <2> QED  BY <1>2, <2>1 DEF PutsReal
<1>5. ResponsesReal' /\ QuotesReal' /\ VerdictsReal'
    BY <1>2 DEF ResponsesReal, QuotesReal, VerdictsReal
<1> QED  BY <1>3, <1>4, <1>5

\* Hear and Forget.
LEMMA CacheKeeps ==
    ASSUME IInv, NEW s \in Storer, Hear(s) \/ Forget(s)
    PROVE  IInv'
<1> USE DEF IInv
<1>1. UNCHANGED <<upload, phase, collected, puts, current, published, quoted, verdicts>>
    BY DEF Hear, Forget, client, node
<1>2. known' \in [Storer -> SUBSET published]
    BY DEF Hear, Forget, TypeOK
<1>3. TypeOK'
    BY <1>1, <1>2 DEF TypeOK
<1>4. ResponsesReal' /\ QuotesReal' /\ PutsReal' /\ VerdictsReal'
    BY <1>1 DEF ResponsesReal, QuotesReal, PutsReal, VerdictsReal
<1> QED  BY <1>3, <1>4

LEMMA JudgingKeeps ==
    ASSUME IInv, NEW s \in Storer, Judging(s)
    PROVE  IInv'
<1> USE DEF IInv
<1>1. PICK put \in puts :
          verdicts' = verdicts \cup
              {[storer |-> s, put |-> put,
                outcome |-> Outcome(upload[put.client], known[s], put.bytes)]}
    BY DEF Judging
<1>2. UNCHANGED <<upload, phase, collected, puts, current, published, quoted, known>>
    BY DEF Judging, client, node
<1> DEFINE outcome == Outcome(upload[put.client], known[s], put.bytes)
           reached == [storer |-> s, put |-> put, outcome |-> outcome]
<1>3. outcome \in {"accepted", "unresolved", "rejected"}
    BY DEF Outcome
<1> HIDE DEF outcome
<1>4. \A v \in verdicts' : v \in verdicts \/ v = reached
    BY <1>1 DEF outcome
<1>5. reached.storer = s /\ reached.put = put /\ reached.outcome = outcome
    OBVIOUS
<1> HIDE DEF reached
<1>6. TypeOK'
  <2>1. ASSUME NEW v \in verdicts'
        PROVE  /\ v.storer \in Storer /\ v.put \in puts
               /\ v.outcome \in {"accepted", "unresolved", "rejected"}
    <3>1. CASE v \in verdicts
      BY <3>1 DEF TypeOK
    <3>2. CASE v = reached
      BY <3>2, <1>3, <1>5
    <3> QED  BY <1>4, <3>1, <3>2
  <2> QED  BY <1>2, <2>1 DEF TypeOK
<1>7. VerdictsReal'
  <2>1. ASSUME NEW v \in verdicts'
        PROVE  \E cache \in SUBSET published :
                   v.outcome = Outcome(upload[v.put.client], cache, v.put.bytes)
    <3>1. CASE v \in verdicts
      BY <3>1 DEF VerdictsReal
    <3>2. CASE v = reached
      <4>1. known[s] \in SUBSET published
        BY DEF TypeOK
      <4> QED  BY <3>2, <1>5, <4>1 DEF outcome
    <3> QED  BY <1>4, <3>1, <3>2
  <2> QED  BY <1>2, <2>1 DEF VerdictsReal
<1>8. ResponsesReal' /\ QuotesReal' /\ PutsReal'
    BY <1>2 DEF ResponsesReal, QuotesReal, PutsReal
<1> QED  BY <1>6, <1>7, <1>8

LEMMA NextKeeps ==
    ASSUME IInv, [Next]_vars
    PROVE  IInv'
<1>1. CASE \E k \in Key : Rotate(k)
    BY <1>1, RotateKeeps
<1>2. CASE \E c \in Client : PayAndPut(c)
    BY <1>2, PayAndPutKeeps
<1>3. CASE \E c \in Client, k \in Key : Collect(c, k)
    BY <1>3, CollectKeeps
<1>4. CASE \E s \in Storer : Hear(s) \/ Forget(s)
    BY <1>4, CacheKeeps
<1>5. CASE \E s \in Storer : Judging(s)
    BY <1>5, JudgingKeeps
<1>6. CASE UNCHANGED vars
  <2>1. UNCHANGED <<upload, phase, collected, puts, current, published, quoted,
                    known, verdicts>>
    BY <1>6 DEF vars
  <2> QED  BY <2>1 DEF IInv, TypeOK, ResponsesReal, QuotesReal, PutsReal, VerdictsReal
<1> QED  BY <1>1, <1>2, <1>3, <1>4, <1>5, <1>6 DEF Next

\* The inductive invariant holds of every state of every behaviour.
THEOREM Invariance == Spec => []IInv
BY InitHolds, NextKeeps, PTL DEF Spec

\* Every variable keeps its type, the storers' caches among them: they hold
\* commitments that were signed (verify_commitment_signature).
THEOREM TypeCorrect == Spec => []TypeOK
<1>1. IInv => TypeOK
    BY DEF IInv
<1> QED  BY <1>1, Invariance, PTL

-----------------------------------------------------------------------------
(* Safety *)

\* A commitment that passes the gates was signed, wherever it came from.
LEMMA PinnedIsPublished ==
    ASSUME NEW q, NEW c \in published \cup Forgeries, Pinned(q, c)
    PROVE  c \in published
BY ForgeryAssumption DEF Pinned

LEMMA ResolvedIsBound ==
    ASSUME NEW q, q.pub_key \in Key, NEW u, Stands(q, u),
           q.terms.commitment_pin # NoPin =>
               \E c \in published : Pinned(q, c) /\ CountsAgree(q, c)
    PROVE  BoundTo(q, PeerId[q.pub_key])
<1> DEFINE k == q.pub_key
           pin == q.terms.commitment_pin
<1>1. q.terms.price = calculate_price(q.terms.committed_key_count)
    BY DEF Stands, ForcedPrice
<1>2. CASE pin = NoPin
  <2>1. q.terms.committed_key_count = 0
    BY <1>2 DEF Stands
  <2> QED  BY <1>1, <1>2, <2>1 DEF BoundTo, BoundPrices
<1>3. CASE pin # NoPin
  <2>1. PICK c \in published : Pinned(q, c) /\ CountsAgree(q, c)
    BY <1>3
  <2>2. /\ commitment_hash(c) = pin /\ c.sender_public_key = k
        /\ c.sender_peer_id = PeerId[k]
    BY <2>1 DEF Pinned
  <2>3. /\ c.key_count = q.terms.committed_key_count
        /\ c.key_count <= MAX_COMMITMENT_KEY_COUNT
    BY <2>1 DEF CountsAgree, Stands, WithinCount
  <2>4. q.terms.price = calculate_price(c.key_count)
    BY <1>1, <2>3
  <2>5. q.terms.price \in BoundPrices(k, pin)
    BY <1>3, <2>2, <2>3, <2>4 DEF BoundPrices
  <2> QED  BY <2>5 DEF BoundTo
<1> QED  BY <1>2, <1>3

\* What comes out of a sidecar was in it.
LEMMA ParsedSidecar ==
    ASSUME NEW blobs, NEW c \in SidecarCommitments(blobs)
    PROVE  \E b \in blobs : c = b.commitment
BY DEF SidecarCommitments

LEMMA PaysBound == IInv => PaysOnlyWhatIsBound
<1> SUFFICES ASSUME IInv, NEW c \in Careful, NEW r \in collected[c]
             PROVE  BoundTo(r.quote, r.peer) /\ IsFor(r.quote, upload[c])
    BY DEF PaysOnlyWhatIsBound
<1>1. c \in Client
    BY ActorAssumption
<1>2. /\ ResolvesBeforePay(r, upload[c])
      /\ \A b \in r.commitment : b.commitment \in published \cup Forgeries
    BY <1>1 DEF IInv, ResponsesReal
<1>3. r.quote.pub_key \in Key
    BY <1>1 DEF IInv, TypeOK
<1>4. Stands(r.quote, upload[c]) /\ r.peer = PeerId[r.quote.pub_key]
    BY <1>2 DEF ResolvesBeforePay
<1>5. ASSUME r.quote.terms.commitment_pin # NoPin
      PROVE  \E s \in published : Pinned(r.quote, s) /\ CountsAgree(r.quote, s)
  <2>1. PICK s \in SidecarCommitments(r.commitment) :
            Pinned(r.quote, s) /\ CountsAgree(r.quote, s)
    BY <1>2, <1>5 DEF ResolvesBeforePay
  <2>2. s \in published \cup Forgeries
    BY <1>2, ParsedSidecar
  <2>3. s \in published
    BY <2>1, <2>2, PinnedIsPublished
  <2> QED  BY <2>1, <2>3
<1>6. BoundTo(r.quote, r.peer)
    BY <1>3, <1>4, <1>5, ResolvedIsBound
<1> QED  BY <1>4, <1>6 DEF Stands

\* A client that resolves before it pays (commitment.rs) pays every node only
\* the price of a commitment that node signed, or of none.
THEOREM CarefulClientsPayBoundPrices == Spec => []PaysOnlyWhatIsBound
BY PaysBound, Invariance, PTL

\* A put's proof and its judge, in the terms of OutcomeOfProof.
LEMMA VerdictFields ==
    ASSUME IInv, NEW v \in verdicts
    PROVE  LET c == v.put.client
               legacy == c \in LegacyBundler
           IN  /\ c \in Client /\ upload[c].kind \in ProofType
               /\ v.put.bytes = ProofBytes(upload[c], collected[c], legacy)
               /\ \E cache \in SUBSET published :
                      v.outcome = Outcome(upload[c], cache,
                                          ProofBytes(upload[c], collected[c], legacy))
<1>1. v.put \in puts /\ v.put.client \in Client
    BY DEF IInv, TypeOK
<1>2. upload[v.put.client].kind \in ProofType
    BY <1>1 DEF IInv, TypeOK, Upload
<1>3. v.put.bytes = ProofBytes(upload[v.put.client], collected[v.put.client],
                               v.put.client \in LegacyBundler)
    BY <1>1 DEF IInv, PutsReal
<1>4. \E cache \in SUBSET published :
          v.outcome = Outcome(upload[v.put.client], cache, v.put.bytes)
    BY DEF IInv, VerdictsReal
<1> QED  BY <1>1, <1>2, <1>3, <1>4

\* The commitments at hand are in circulation.
LEMMA AtHandCirculates ==
    ASSUME IInv, NEW c \in Client, NEW cache \in SUBSET published, NEW legacy,
           NEW s \in AtHand(upload[c], cache, collected[c], legacy)
    PROVE  s \in published \cup Forgeries
<1> DEFINE blobs == BundledSidecars(upload[c], collected[c], legacy)
<1>1. ASSUME s \in SidecarCommitments(blobs)
      PROVE  s \in published \cup Forgeries
  <2>1. PICK b \in blobs : s = b.commitment
    BY <1>1, ParsedSidecar
  <2>2. PICK r \in collected[c] : b \in r.commitment
    BY <2>1 DEF BundledSidecars
  <2> QED  BY <2>1, <2>2 DEF IInv, ResponsesReal
<1> QED  BY <1>1 DEF AtHand

\* What a proof carries are the quotes its client pays on.
LEMMA EntryFields ==
    ASSUME IInv, NEW put \in puts,
           NEW proof \in Deserialize(put.bytes), NEW e \in proof.quotes
    PROVE  /\ put.client \in Client
           /\ \E r \in collected[put.client] : e = [peer |-> r.peer, quote |-> r.quote]
<1> DEFINE c == put.client
           legacy == c \in LegacyBundler
<1>1. c \in Client /\ upload[c].kind \in ProofType
    BY DEF IInv, TypeOK, Upload
<1>2. put.bytes = ProofBytes(upload[c], collected[c], legacy)
    BY DEF IInv, PutsReal
<1> HIDE DEF legacy
<1>3. proof.quotes = ProofEntries(collected[c])
    BY <1>1, <1>2, BytesRoundTrip
<1> QED  BY <1>1, <1>3 DEF ProofEntries

\* What a storer has made sure of when it accepts.
LEMMA AcceptedEntry ==
    ASSUME IInv, NEW v \in verdicts, v.outcome = "accepted",
           NEW proof \in Deserialize(v.put.bytes), NEW e \in proof.quotes
    PROVE  /\ PeerId[e.quote.pub_key] = e.peer /\ e.quote.pub_key \in Key
           /\ Stands(e.quote, upload[v.put.client])
           /\ e.quote.terms.commitment_pin # NoPin =>
                  \E s \in published : Pinned(e.quote, s) /\ CountsAgree(e.quote, s)
<1> DEFINE c == v.put.client
           legacy == c \in LegacyBundler
<1>1. c \in Client /\ upload[c].kind \in ProofType
    BY VerdictFields
<1>2. PICK cache \in SUBSET published :
          Outcome(upload[c], cache, ProofBytes(upload[c], collected[c], legacy))
          = "accepted"
    BY VerdictFields
<1> HIDE DEF legacy
<1>3. PICK r \in collected[c] : e = [peer |-> r.peer, quote |-> r.quote]
    BY EntryFields DEF IInv, TypeOK
<1> DEFINE K == AtHand(upload[c], cache, collected[c], legacy)
<1>4. PeerId[r.quote.pub_key] = r.peer /\ Judge(r.quote, upload[c], K) = "accepted"
  <2> DEFINE judged == {Judge(p.quote, upload[c], K) : p \in collected[c]}
  <2>1. /\ \A p \in collected[c] : PeerId[p.quote.pub_key] = p.peer
        /\ "rejected" \notin judged /\ "unresolved" \notin judged
    BY <1>1, <1>2, OutcomeOfProof
  <2>2. Judge(r.quote, upload[c], K) \in judged
    OBVIOUS
  <2>3. Judge(r.quote, upload[c], K) \in {"accepted", "unresolved", "rejected"}
    BY DEF Judge
  <2> HIDE DEF judged, K
  <2> QED  BY <2>1, <2>2, <2>3
<1>5. r.quote.pub_key \in Key
    BY <1>1 DEF IInv, TypeOK
<1>6. ASSUME r.quote.terms.commitment_pin # NoPin
      PROVE  \E s \in published : Pinned(r.quote, s) /\ CountsAgree(r.quote, s)
  <2>1. PICK s \in K : Pinned(r.quote, s) /\ CountsAgree(r.quote, s)
    BY <1>4, <1>6, JudgeAccepts
  <2>2. s \in published
    BY <1>1, <2>1, AtHandCirculates, PinnedIsPublished
  <2> QED  BY <2>1, <2>2
<1>7. Stands(r.quote, upload[c])
    BY <1>4, JudgeAccepts
<1>8. e.quote = r.quote /\ e.peer = r.peer
    BY <1>3
<1> HIDE DEF K
<1> QED  BY <1>4, <1>5, <1>6, <1>7, <1>8

LEMMA AcceptsBound == IInv => AcceptsOnlyWhatIsBound
<1> SUFFICES ASSUME IInv, NEW v \in verdicts, v.outcome = "accepted",
                    NEW proof \in Deserialize(v.put.bytes), NEW e \in proof.quotes
             PROVE  BoundTo(e.quote, e.peer)
    BY DEF AcceptsOnlyWhatIsBound
<1>1. /\ e.peer = PeerId[e.quote.pub_key] /\ e.quote.pub_key \in Key
      /\ Stands(e.quote, upload[v.put.client])
      /\ e.quote.terms.commitment_pin # NoPin =>
             \E s \in published : Pinned(e.quote, s) /\ CountsAgree(e.quote, s)
    BY AcceptedEntry
<1>2. BoundTo(e.quote, PeerId[e.quote.pub_key])
    BY <1>1, ResolvedIsBound
<1> QED  BY <1>1, <1>2

\* A storer that checks quotes and commitments as verify.rs and commitment.rs
\* do accepts no price its node is not bound to.
THEOREM StorersAcceptBoundPrices == Spec => []AcceptsOnlyWhatIsBound
BY AcceptsBound, Invariance, PTL

LEMMA CountsGreatest == IInv => CountsAreTheGreatestPaid
<1> SUFFICES ASSUME IInv, NEW put \in puts,
                    NEW proof \in Deserialize(put.bytes), NEW e \in proof.quotes
             PROVE  LET price == e.quote.terms.price
                        n == derive_records_stored_from_price(price)
                    IN  /\ n \in Records
                        /\ \A m \in Records :
                               m <= n <=> calculate_price(m) <= price \/ m = 0
    BY DEF CountsAreTheGreatestPaid
<1>1. put.client \in Client
    BY EntryFields
<1>2. PICK r \in collected[put.client] : e = [peer |-> r.peer, quote |-> r.quote]
    BY EntryFields
<1>3. e.quote.terms.price \in Amount
    BY <1>1, <1>2 DEF IInv, TypeOK
<1>4. 0 \in Records
    BY CountsAreRecords
<1> QED  BY <1>3, <1>4, GreatestCount

\* Whatever price a proof carries, storers derive the same count from it, the
\* greatest that it pays (derive_records_stored_from_price).
THEOREM DerivedCountsAreGreatest == Spec => []CountsAreTheGreatestPaid
BY CountsGreatest, Invariance, PTL

LEMMA PricesTell == IInv => PricesTellTheCommittedCount
<1> SUFFICES ASSUME IInv, NEW v \in verdicts, v.outcome = "accepted",
                    NEW proof \in Deserialize(v.put.bytes), NEW e \in proof.quotes
             PROVE  LET pin == e.quote.terms.commitment_pin
                        n == derive_records_stored_from_price(e.quote.terms.price)
                    IN  \/ pin = NoPin /\ n = 0
                        \/ \E c \in published :
                               /\ commitment_hash(c) = pin /\ c.key_count = n
                               /\ c.sender_public_key = e.quote.pub_key
    BY DEF PricesTellTheCommittedCount
<1> DEFINE count == e.quote.terms.committed_key_count
           pin == e.quote.terms.commitment_pin
           n == derive_records_stored_from_price(e.quote.terms.price)
<1>1. /\ Stands(e.quote, upload[v.put.client])
      /\ pin # NoPin =>
             \E c \in published : Pinned(e.quote, c) /\ CountsAgree(e.quote, c)
    BY AcceptedEntry
<1>2. e.quote.terms.price = calculate_price(count)
    BY <1>1 DEF Stands, ForcedPrice
<1>3. ASSUME count \in Records PROVE n = count
    BY <1>2, <1>3, PriceRoundTrip
<1>4. CASE pin = NoPin
  <2>1. count = 0
    BY <1>1, <1>4 DEF Stands
  <2> QED  BY <1>3, <1>4, <2>1, CountsAreRecords
<1>5. CASE pin # NoPin
  <2>1. PICK c \in published : Pinned(e.quote, c) /\ CountsAgree(e.quote, c)
    BY <1>1, <1>5
  <2>2. c.key_count \in KeyCount
    BY StatementFields DEF IInv, TypeOK
  <2>3. c.key_count = count /\ count \in Records
    BY <2>1, <2>2, CountsAreRecords DEF CountsAgree
  <2> QED  BY <1>3, <2>1, <2>3 DEF Pinned
<1> QED  BY <1>4, <1>5

\* The price of a quote that a storer accepts tells the count its node signed
\* in the commitment it pins.
THEOREM AcceptedPricesTellCounts == Spec => []PricesTellTheCommittedCount
BY PricesTell, Invariance, PTL

LEMMA PaidStand == IInv => PaidProofsStand
<1> SUFFICES ASSUME IInv, NEW v \in verdicts, v.put.client \in Careful
             PROVE  \/ v.outcome = "accepted"
                    \/ /\ v.outcome = "unresolved"
                       /\ ~ Forwards(upload[v.put.client],
                                     v.put.client \in LegacyBundler)
    BY DEF PaidProofsStand
<1> DEFINE c == v.put.client
           legacy == c \in LegacyBundler
           u == upload[c]
<1>1. c \in Client /\ u.kind \in ProofType
    BY VerdictFields
<1>2. PICK cache \in SUBSET published :
          v.outcome = Outcome(u, cache, ProofBytes(u, collected[c], legacy))
    BY VerdictFields
<1> DEFINE K == AtHand(u, cache, collected[c], legacy)
           judged == {Judge(r.quote, u, K) : r \in collected[c]}
<1>3. ASSUME NEW r \in collected[c]
      PROVE  /\ PeerId[r.quote.pub_key] = r.peer /\ Stands(r.quote, u)
             /\ r.quote.terms.commitment_pin # NoPin =>
                    \E s \in SidecarCommitments(r.commitment) :
                        Pinned(r.quote, s) /\ CountsAgree(r.quote, s)
    BY <1>1 DEF IInv, ResponsesReal, ResolvesBeforePay
<1>4. ASSUME NEW r \in collected[c], NEW s, Pinned(r.quote, s)
      PROVE  CountsAgree(r.quote, s)
  <2>1. r.quote.terms.commitment_pin # NoPin
    BY <1>4, PinsDiffer DEF Pinned
  <2>2. PICK t \in SidecarCommitments(r.commitment) :
            Pinned(r.quote, t) /\ CountsAgree(r.quote, t)
    BY <1>3, <2>1
  <2>3. s = t
    BY <1>4, <2>2, PinnedOnce
  <2> QED  BY <2>2, <2>3
<1>5. \A r \in collected[c] : Judge(r.quote, u, K) # "rejected"
    BY <1>3, <1>4, JudgeRejects
<1>6. ASSUME Forwards(u, legacy), NEW r \in collected[c]
      PROVE  Judge(r.quote, u, K) = "accepted"
  <2>1. SidecarCommitments(r.commitment) \subseteq K
    BY <1>6 DEF AtHand, BundledSidecars, SidecarCommitments
  <2> HIDE DEF K
  <2>2. CASE r.quote.terms.commitment_pin = NoPin
    BY <1>3, <1>4, <2>2, JudgeRejects
  <2>3. CASE r.quote.terms.commitment_pin # NoPin
    BY <1>3, <1>4, <2>1, <2>3, JudgeRejects
  <2> QED  BY <2>2, <2>3
<1>7. v.outcome = IF "unresolved" \in judged THEN "unresolved" ELSE "accepted"
  <2>1. \A r \in collected[c] : PeerId[r.quote.pub_key] = r.peer
    BY <1>3
  <2>2. "rejected" \notin judged
    BY <1>5
  <2> HIDE DEF legacy
  <2>3. v.outcome = IF ~ (\A r \in collected[c] : PeerId[r.quote.pub_key] = r.peer)
                       \/ "rejected" \in judged
                    THEN "rejected"
                    ELSE IF "unresolved" \in judged THEN "unresolved" ELSE "accepted"
    BY <1>1, <1>2, OutcomeOfProof
  <2> QED  BY <2>1, <2>2, <2>3
<1>8. Forwards(u, legacy) => "unresolved" \notin judged
    BY <1>6
<1> QED  BY <1>7, <1>8

\* Nothing a careful client paid for is refused later; and with the sidecars
\* (PaymentProof::commitment_sidecars) it is accepted, gossip or not.
THEOREM CarefulPaymentsStand == Spec => []PaidProofsStand
BY PaidStand, Invariance, PTL

-----------------------------------------------------------------------------
(* Storers with different caches *)

\* A commitment more changes a judgement only if there was none.
LEMMA JudgeGrows ==
    ASSUME NEW q, NEW u, NEW K, NEW L, K \subseteq L
    PROVE  /\ Judge(q, u, K) \in {"accepted", "unresolved", "rejected"}
           /\ Judge(q, u, K) = "accepted" => Judge(q, u, L) = "accepted"
           /\ Judge(q, u, K) = "rejected" => Judge(q, u, L) = "rejected"
<1>1. Judge(q, u, K) \in {"accepted", "unresolved", "rejected"}
    BY DEF Judge
<1>2. ASSUME Judge(q, u, K) = "accepted" PROVE Judge(q, u, L) = "accepted"
  <2>1. /\ Stands(q, u)
        /\ q.terms.commitment_pin # NoPin =>
               \E c \in K : Pinned(q, c) /\ CountsAgree(q, c)
    BY <1>2, JudgeAccepts
  <2>2. ASSUME NEW c, Pinned(q, c) PROVE CountsAgree(q, c)
    <3>1. q.terms.commitment_pin # NoPin
      BY <2>2, PinsDiffer DEF Pinned
    <3> QED  BY <2>1, <2>2, <3>1, PinnedOnce
  <2> QED  BY <2>1, <2>2, JudgeRejects
<1>3. ASSUME Judge(q, u, K) = "rejected" PROVE Judge(q, u, L) = "rejected"
    BY <1>3 DEF Judge
<1> QED  BY <1>1, <1>2, <1>3

\* The outcome of a proof is that of the quotes it carries.
LEMMA OutcomeSays ==
    ASSUME NEW u, NEW cache, NEW bytes
    PROVE  LET J(proof, e) ==
                   Judge(e.quote, u, cache \cup SidecarCommitments(proof.sidecars))
               Own(e) == PeerId[e.quote.pub_key] = e.peer
               outcome == Outcome(u, cache, bytes)
           IN  /\ outcome = "rejected" <=>
                      \/ Deserialize(bytes) = {}
                      \/ \E proof \in Deserialize(bytes) : \E e \in proof.quotes :
                             ~ Own(e) \/ J(proof, e) = "rejected"
               /\ outcome = "accepted" <=>
                      /\ Deserialize(bytes) # {}
                      /\ \A proof \in Deserialize(bytes) : \A e \in proof.quotes :
                             Own(e) /\ J(proof, e) = "accepted"
<1> DEFINE J(proof, e) == Judge(e.quote, u, cache \cup SidecarCommitments(proof.sidecars))
           Own(e) == PeerId[e.quote.pub_key] = e.peer
           proofs == Deserialize(bytes)
           judged == UNION {{J(proof, e) : e \in proof.quotes} : proof \in proofs}
           own == \A proof \in proofs : \A e \in proof.quotes : Own(e)
<1>1. Outcome(u, cache, bytes)
      = IF proofs = {} \/ ~ own \/ "rejected" \in judged THEN "rejected"
        ELSE IF "unresolved" \in judged THEN "unresolved" ELSE "accepted"
    BY DEF Outcome
<1>2. \A proof, e : J(proof, e) \in {"accepted", "unresolved", "rejected"}
    BY DEF Judge
<1> HIDE DEF J, Own
<1>3. \A j : j \in judged <=> \E proof \in proofs : \E e \in proof.quotes : j = J(proof, e)
    OBVIOUS
<1> HIDE DEF judged, proofs
<1>4. /\ Outcome(u, cache, bytes) = "rejected" <=>
             \/ proofs = {}
             \/ \E proof \in proofs : \E e \in proof.quotes :
                    ~ Own(e) \/ J(proof, e) = "rejected"
      /\ Outcome(u, cache, bytes) = "accepted" <=>
             /\ proofs # {}
             /\ \A proof \in proofs : \A e \in proof.quotes :
                    Own(e) /\ J(proof, e) = "accepted"
    BY <1>1, <1>2, <1>3
<1> QED  BY <1>4 DEF J, Own, proofs

\* Whatever the bytes of a proof, and whoever sent it: commitments that a storer
\* hears of turn "unresolved" into a decision, and no decision into another; so
\* the proof may be retried (StorageCommitment, the pin of a quote).
THEOREM OnlyUnresolvedChanges ==
    ASSUME NEW u, NEW bytes, NEW K, NEW L, K \subseteq L
    PROVE  Outcome(u, K, bytes) # "unresolved" => Outcome(u, L, bytes) = Outcome(u, K, bytes)
<1> DEFINE J(C, proof, e) == Judge(e.quote, u, C \cup SidecarCommitments(proof.sidecars))
           Own(e) == PeerId[e.quote.pub_key] = e.peer
           proofs == Deserialize(bytes)
<1>1. ASSUME NEW proof, NEW e
      PROVE  /\ J(K, proof, e) = "accepted" => J(L, proof, e) = "accepted"
             /\ J(K, proof, e) = "rejected" => J(L, proof, e) = "rejected"
  <2>1. K \cup SidecarCommitments(proof.sidecars) \subseteq L \cup SidecarCommitments(proof.sidecars)
    OBVIOUS
  <2> QED  BY <2>1, JudgeGrows
<1>2. \A C : /\ Outcome(u, C, bytes) = "rejected" <=>
                    \/ proofs = {}
                    \/ \E proof \in proofs : \E e \in proof.quotes :
                           ~ Own(e) \/ J(C, proof, e) = "rejected"
             /\ Outcome(u, C, bytes) = "accepted" <=>
                    /\ proofs # {}
                    /\ \A proof \in proofs : \A e \in proof.quotes :
                           Own(e) /\ J(C, proof, e) = "accepted"
    BY OutcomeSays
<1>3. Outcome(u, K, bytes) \in {"accepted", "unresolved", "rejected"}
    BY DEF Outcome
<1> HIDE DEF J, Own, proofs
<1>4. ASSUME Outcome(u, K, bytes) = "accepted" PROVE Outcome(u, L, bytes) = "accepted"
    BY <1>1, <1>2, <1>4
<1>5. ASSUME Outcome(u, K, bytes) = "rejected" PROVE Outcome(u, L, bytes) = "rejected"
    BY <1>1, <1>2, <1>5
<1> QED  BY <1>3, <1>4, <1>5

\* No storer accepts a proof that a storer rejects, now or later, though gossip
\* told them different things and each forgets at its own time.
StorersNeverContradict ==
    \A v, w \in verdicts :
        v.put = w.put => ~ (v.outcome = "accepted" /\ w.outcome = "rejected")

LEMMA NoContradiction == IInv => StorersNeverContradict
<1> SUFFICES ASSUME IInv, NEW v \in verdicts, NEW w \in verdicts, v.put = w.put,
                    v.outcome = "accepted", w.outcome = "rejected"
             PROVE  FALSE
    BY DEF StorersNeverContradict
<1> DEFINE u == upload[v.put.client]
           bytes == v.put.bytes
<1>1. PICK K : Outcome(u, K, bytes) = "accepted"
    BY DEF IInv, VerdictsReal
<1>2. PICK L : Outcome(u, L, bytes) = "rejected"
    BY DEF IInv, VerdictsReal
<1> HIDE DEF u, bytes
<1>3. Outcome(u, K \cup L, bytes) = "accepted"
    BY <1>1, OnlyUnresolvedChanges
<1>4. Outcome(u, K \cup L, bytes) = "rejected"
    BY <1>2, OnlyUnresolvedChanges
<1> QED  BY <1>3, <1>4

\* Storers that judge one proof, in any order, with any caches, do not come to
\* opposite ends (Judge, of verify.rs and commitment.rs).
THEOREM StorersAgree == Spec => []StorersNeverContradict
BY NoContradiction, Invariance, PTL

\* A proof of a careful client that a storer cannot resolve waits for
\* commitments that exist: a storer that has all of those its quotes pin,
\* whatever else it has heard of, accepts it.
GossipSettles ==
    \A put \in puts : put.client \in Careful =>
        \E needed \in SUBSET published :
            \A cache \in SUBSET published : needed \subseteq cache =>
                Outcome(upload[put.client], cache, put.bytes) = "accepted"

LEMMA AllPublishedSettles ==
    ASSUME IInv, NEW put \in puts, put.client \in Careful
    PROVE  LET c == put.client
               needed == {s \in published : \E r \in collected[c] : Pinned(r.quote, s)}
           IN  Outcome(upload[c], needed, put.bytes) = "accepted"
<1> DEFINE c == put.client
           legacy == c \in LegacyBundler
           u == upload[c]
           needed == {s \in published : \E r \in collected[c] : Pinned(r.quote, s)}
           K == AtHand(u, needed, collected[c], legacy)
           judged == {Judge(r.quote, u, K) : r \in collected[c]}
<1>1. c \in Client /\ u.kind \in ProofType
    BY DEF IInv, TypeOK, Upload
<1>2. put.bytes = ProofBytes(u, collected[c], legacy)
    BY DEF IInv, PutsReal
<1>3. ASSUME NEW r \in collected[c]
      PROVE  PeerId[r.quote.pub_key] = r.peer /\ Judge(r.quote, u, K) = "accepted"
  <2>1. ResolvesBeforePay(r, u)
        /\ \A b \in r.commitment : b.commitment \in published \cup Forgeries
    BY <1>1 DEF IInv, ResponsesReal
  <2>2. /\ PeerId[r.quote.pub_key] = r.peer /\ Stands(r.quote, u)
        /\ r.quote.terms.commitment_pin # NoPin =>
               \E s \in SidecarCommitments(r.commitment) :
                   Pinned(r.quote, s) /\ CountsAgree(r.quote, s)
    BY <2>1 DEF ResolvesBeforePay
  <2>3. ASSUME r.quote.terms.commitment_pin # NoPin
        PROVE  \E s \in K : Pinned(r.quote, s) /\ CountsAgree(r.quote, s)
    <3>1. PICK s \in SidecarCommitments(r.commitment) :
              Pinned(r.quote, s) /\ CountsAgree(r.quote, s)
      BY <2>2, <2>3
    <3>2. s \in published \cup Forgeries
      BY <2>1, ParsedSidecar
    <3>3. s \in published
      BY <3>1, <3>2, PinnedIsPublished
    <3>4. s \in needed
      BY <3>1, <3>3
    <3>5. needed \subseteq K
      BY DEF AtHand
    <3> HIDE DEF K, needed
    <3> QED  BY <3>1, <3>4, <3>5
  <2> HIDE DEF K
  <2>4. ASSUME NEW s, Pinned(r.quote, s) PROVE CountsAgree(r.quote, s)
    <3>1. r.quote.terms.commitment_pin # NoPin
      BY <2>4, PinsDiffer DEF Pinned
    <3> QED  BY <2>3, <2>4, <3>1, PinnedOnce
  <2>5. Judge(r.quote, u, K) = "accepted"
    BY <2>2, <2>3, <2>4, JudgeRejects
  <2> QED  BY <2>2, <2>5
<1>4. \A j \in judged : j = "accepted"
    BY <1>3
<1>5. Outcome(u, needed, ProofBytes(u, collected[c], legacy))
      = IF ~ (\A r \in collected[c] : PeerId[r.quote.pub_key] = r.peer)
           \/ "rejected" \in judged
        THEN "rejected" ELSE IF "unresolved" \in judged THEN "unresolved" ELSE "accepted"
  <2> HIDE DEF needed, legacy
  <2> QED  BY <1>1, OutcomeOfProof
<1>6. \A r \in collected[c] : PeerId[r.quote.pub_key] = r.peer
    BY <1>3
<1> HIDE DEF judged, needed
<1> QED  BY <1>2, <1>4, <1>5, <1>6 DEF needed

LEMMA Settles == IInv => GossipSettles
<1> SUFFICES ASSUME IInv, NEW put \in puts, put.client \in Careful
             PROVE  \E needed \in SUBSET published :
                        \A cache \in SUBSET published : needed \subseteq cache =>
                            Outcome(upload[put.client], cache, put.bytes) = "accepted"
    BY DEF GossipSettles
<1> DEFINE needed == {s \in published :
                        \E r \in collected[put.client] : Pinned(r.quote, s)}
<1>1. Outcome(upload[put.client], needed, put.bytes) = "accepted"
    BY AllPublishedSettles
<1>2. needed \in SUBSET published
    OBVIOUS
<1> HIDE DEF needed
<1>3. \A cache : needed \subseteq cache =>
          Outcome(upload[put.client], cache, put.bytes) = "accepted"
    BY <1>1, OnlyUnresolvedChanges
<1> QED  BY <1>2, <1>3

\* A careful client's payment is never stuck for good: there are commitments,
\* signed already, with which every storer accepts it, sidecars or not.
THEOREM GossipSettlesCarefulPayments == Spec => []GossipSettles
BY Settles, Invariance, PTL

-----------------------------------------------------------------------------
(* Evidence *)

LEMMA SignedBytesAgree ==
    ASSUME NEW s, NEW t, s.kind = t.kind, SignedBytes(s) = SignedBytes(t)
    PROVE  /\ s.price = t.price /\ s.committed_key_count = t.committed_key_count
           /\ s.commitment_pin = t.commitment_pin
BY DEF SignedBytes, bytes_for_sig, bytes_to_sign

\* No quote with the signature of an honest node's quote is evidence, whatever of
\* it but its kind was altered before it was shown.
LEMMA OwnQuoteIsNoEvidence ==
    ASSUME IInv, NEW q \in quoted, NEW p, p.signature = q.signature,
           p.terms.kind = q.terms.kind, NEW c
    PROVE  ~ Convicts(p, c)
<1> SUFFICES ASSUME VerifySignature(p), Pinned(p, c)
             PROVE  CountsAgree(p, c) /\ ForcedPrice(p.terms)
    BY DEF Convicts
<1>0. PICK k \in Honest : \E t :
          /\ q = Quote(k, t)
          /\ \E u \in Upload :
                 \/ t = Terms(u, calculate_price(0), Wallet[k], 0, NoPin)
                 \/ \E s \in published :
                        t = Terms(u, calculate_price(s.key_count), Wallet[k],
                                  s.key_count, commitment_hash(s))
    BY DEF IInv, QuotesReal
<1>1. PICK t :
          /\ q = Quote(k, t)
          /\ \E u \in Upload :
                 \/ t = Terms(u, calculate_price(0), Wallet[k], 0, NoPin)
                 \/ \E s \in published :
                        t = Terms(u, calculate_price(s.key_count), Wallet[k],
                                  s.key_count, commitment_hash(s))
    BY <1>0
<1>2. q.signature = Sign(k, "NoContext", SignedBytes(t)) /\ q.terms = t
    BY <1>1 DEF Quote
<1>3. SignedBytes(p.terms) = SignedBytes(t)
  <2>1. p.signature = Sign(p.pub_key, "NoContext", SignedBytes(p.terms))
    BY DEF VerifySignature
  <2> QED  BY <1>2, <2>1 DEF Sign
<1>4. /\ p.terms.price = t.price /\ p.terms.commitment_pin = t.commitment_pin
      /\ p.terms.committed_key_count = t.committed_key_count
    BY <1>2, <1>3, SignedBytesAgree
<1>5. commitment_hash(c) = t.commitment_pin
    BY <1>4 DEF Pinned
<1>6. PICK u \in Upload, s \in published :
          t = Terms(u, calculate_price(s.key_count), Wallet[k], s.key_count,
                    commitment_hash(s))
  <2>1. \A u \in Upload : t # Terms(u, calculate_price(0), Wallet[k], 0, NoPin)
    BY <1>5, PinsDiffer, TermsFields
  <2> QED  BY <1>1, <2>1
<1>7. /\ t.price = calculate_price(s.key_count)
      /\ t.committed_key_count = s.key_count
      /\ t.commitment_pin = commitment_hash(s)
    BY <1>6, TermsFields
<1>8. c = s
    BY <1>5, <1>7, HashIsInjective
<1> QED  BY <1>4, <1>7, <1>8 DEF CountsAgree, ForcedPrice

LEMMA HonestAreSafe == IInv => HonestAreNotConvicted
<1> SUFFICES ASSUME IInv, NEW q \in quoted, NEW c, NEW address, NEW n
             PROVE  /\ ~ Convicts(q, c)
                    /\ ~ Convicts([q EXCEPT !.terms.rewards_address = address,
                                            !.terms.committed_key_count = n,
                                            !.terms.commitment_pin = commitment_hash(c)], c)
    BY DEF HonestAreNotConvicted
<1> DEFINE p == [q EXCEPT !.terms.rewards_address = address,
                          !.terms.committed_key_count = n,
                          !.terms.commitment_pin = commitment_hash(c)]
<1>1. p.signature = q.signature /\ p.terms.kind = q.terms.kind
  <2>1. PICK k \in Honest, u \in Upload :
            \/ q = Quote(k, Terms(u, calculate_price(0), Wallet[k], 0, NoPin))
            \/ \E s \in published :
                   q = Quote(k, Terms(u, calculate_price(s.key_count), Wallet[k],
                                      s.key_count, commitment_hash(s)))
    BY DEF IInv, QuotesReal
  <2>2. ASSUME NEW price, NEW m, NEW pin, q = Quote(k, Terms(u, price, Wallet[k], m, pin))
        PROVE  p.signature = q.signature /\ p.terms.kind = q.terms.kind
    BY <2>2 DEF Quote, Terms
  <2> HIDE DEF p
  <2> QED  BY <2>1, <2>2
<1> HIDE DEF p
<1>2. ~ Convicts(q, c) /\ ~ Convicts(p, c)
    BY <1>1, OwnQuoteIsNoEvidence
<1> QED  BY <1>2 DEF p

\* Evidence of a count or price that does not match its pin (verify.rs) never
\* speaks against a node that quotes its commitments.
THEOREM HonestNodesAreSafe == Spec => []HonestAreNotConvicted
BY HonestAreSafe, Invariance, PTL

LEMMA HonestResolve == IInv => HonestQuotesResolve
<1> SUFFICES ASSUME IInv, NEW c \in Client, NEW k \in Honest
             PROVE  ResolvesBeforePay(HonestResponse(k, upload[c]), upload[c])
    BY DEF HonestQuotesResolve
<1> DEFINE u == upload[c]
           r == HonestResponse(k, u)
<1>1. /\ r.peer = PeerId[k] /\ r.quote.pub_key = k
      /\ \/ r.quote = Quote(k, Terms(u, calculate_price(0), Wallet[k], 0, NoPin))
         \/ \E s \in published :
                /\ r.quote = Quote(k, Terms(u, calculate_price(s.key_count), Wallet[k],
                                       s.key_count, commitment_hash(s)))
                /\ s \in Statements(k)
                /\ r.commitment = {[commitment |-> s, fits |-> TRUE]}
    BY HonestResponseFields DEF IInv
<1>a. u.kind \in ProofType
    BY DEF IInv, TypeOK, Upload
<1> HIDE DEF r, u
<1>2. CASE r.quote = Quote(k, Terms(u, calculate_price(0), Wallet[k], 0, NoPin))
  <2>1. /\ VerifySignature(r.quote)
        /\ r.quote.terms = Terms(u, calculate_price(0), Wallet[k], 0, NoPin)
    BY <1>2, QuoteFields
  <2>2. Stands(r.quote, u) /\ r.quote.terms.commitment_pin = NoPin
    BY <1>a, <2>1, TermsFields, CountAssumption
       DEF ProofType, Stands, IsFor, verify_quote_content, WithinCount, ForcedPrice
  <2> QED  BY <1>1, <2>2 DEF ResolvesBeforePay, r, u
<1>3. ASSUME NEW s \in Statements(k),
             r.quote = Quote(k, Terms(u, calculate_price(s.key_count), Wallet[k], s.key_count,
                                      commitment_hash(s))),
             r.commitment = {[commitment |-> s, fits |-> TRUE]}
      PROVE  ResolvesBeforePay(r, u)
  <2>1. /\ VerifySignature(r.quote) /\ r.quote.pub_key = k
        /\ r.quote.terms = Terms(u, calculate_price(s.key_count), Wallet[k], s.key_count,
                                 commitment_hash(s))
    BY <1>3, QuoteFields
  <2>2. /\ verify_commitment_signature(s) /\ s.sender_public_key = k
        /\ s.sender_peer_id = PeerId[k] /\ s.key_count <= MAX_COMMITMENT_KEY_COUNT
    BY StatementFields, ActorAssumption
  <2>3. /\ r.quote.terms.committed_key_count = s.key_count
        /\ r.quote.terms.commitment_pin = commitment_hash(s)
        /\ r.quote.terms.price = calculate_price(s.key_count)
        /\ r.quote.terms.kind = u.kind /\ r.quote.terms.subject = u.subject
    BY <2>1, TermsFields
  <2>4. Stands(r.quote, u)
    BY <1>a, <2>1, <2>2, <2>3, PinsDiffer
       DEF ProofType, Stands, IsFor, verify_quote_content, WithinCount, ForcedPrice
  <2>5. Pinned(r.quote, s) /\ CountsAgree(r.quote, s)
    BY <2>1, <2>2, <2>3 DEF Pinned, CountsAgree
  <2>6. s \in SidecarCommitments(r.commitment)
    <3>1. SidecarCommitments(r.commitment)
          = {b.commitment : b \in {[commitment |-> s, fits |-> TRUE]}}
      BY <1>3 DEF SidecarCommitments
    <3> QED  BY <3>1
  <2> QED  BY <1>1, <2>4, <2>5, <2>6 DEF ResolvesBeforePay
<1>4. ResolvesBeforePay(r, u)
    BY <1>1, <1>2, <1>3 DEF r, u
<1> QED  BY <1>4 DEF r, u

\* An honest node's answer, of any time, is one a client can resolve.
THEOREM HonestNodesResolve == Spec => []HonestQuotesResolve
BY HonestResolve, Invariance, PTL

-----------------------------------------------------------------------------
(* The abstract specification is implemented *)

PriceSet == {calculate_price(n) : n \in KeyCount}

BoundNow == [k \in Key |-> SignedPrices(k)]

LEMMA InitIsInit == Init => Promise!Init
<1> SUFFICES ASSUME Init PROVE Promise!Init
    OBVIOUS
<1>1. published = {} /\ \A c \in Client : phase[c] = "collecting"
    BY DEF Init
<1>2. \A k \in Key : SignedPrices(k) = {calculate_price(0)}
    BY <1>1 DEF SignedPrices
<1>3. {c \in Careful : phase[c] = "paid"} = {}
    BY <1>1, ActorAssumption
<1>4. CarefulPayments = {}
    BY <1>3 DEF CarefulPayments
<1> QED  BY <1>2, <1>4 DEF Promise!Init

\* A commitment under the node's own id binds it to a price, one under
\* another's to nothing.
LEMMA RotateBinds ==
    ASSUME IInv, NEW k \in Key, Rotate(k)
    PROVE  Promise!Bind(k) \/ UNCHANGED Promise!vars
<1>1. PICK c \in Statements(k) : published' = published \cup {c}
    BY DEF Rotate
<1>2. c.sender_public_key = k /\ c.key_count \in KeyCount
    BY StatementFields
<1>3. CarefulPayments' = CarefulPayments
    BY DEF Rotate, client, CarefulPayments
<1>4. \A l \in Key : SignedPrices(l)'
          = IF l = k /\ c.sender_peer_id = PeerId[k]
            THEN SignedPrices(l) \cup {calculate_price(c.key_count)}
            ELSE SignedPrices(l)
    BY <1>1, <1>2 DEF SignedPrices
<1>5. calculate_price(c.key_count) \in PriceSet
    BY <1>2 DEF PriceSet
<1>6. CASE c.sender_peer_id = PeerId[k]
  <2>1. BoundNow' = [BoundNow EXCEPT ![k] = @ \cup {calculate_price(c.key_count)}]
    BY <1>4, <1>6 DEF BoundNow
  <2> QED  BY <1>3, <1>5, <2>1 DEF Promise!Bind, BoundNow, PriceSet
<1>7. CASE c.sender_peer_id # PeerId[k]
  <2>1. BoundNow' = BoundNow
    BY <1>4, <1>7 DEF BoundNow
  <2> QED  BY <1>3, <2>1 DEF Promise!vars, BoundNow
<1> QED  BY <1>6, <1>7

LEMMA BoundIsKept ==
    ASSUME published' = published
    PROVE  BoundNow' = BoundNow
BY DEF BoundNow, SignedPrices

Batch(c) ==
    {[payer |-> c, node |-> r.quote.pub_key, price |-> r.quote.terms.price] :
        r \in collected[c]}

\* What a careful client pays a node, the node is bound to.
LEMMA PaymentIsBound ==
    ASSUME IInv, NEW c \in Careful, NEW p \in Batch(c)
    PROVE  /\ p.payer = c /\ p.node \in Key /\ p.price \in PriceSet
           /\ p = [payer |-> p.payer, node |-> p.node, price |-> p.price]
           /\ p.price \in SignedPrices(p.node)
<1>1. PICK r \in collected[c] :
          p = [payer |-> c, node |-> r.quote.pub_key, price |-> r.quote.terms.price]
    BY DEF Batch
<1>2. c \in Client
    BY ActorAssumption
<1>3. r.quote.pub_key \in Key
    BY <1>2 DEF IInv, TypeOK
<1>4. BoundTo(r.quote, r.peer)
    BY PaysBound DEF PaysOnlyWhatIsBound
<1>5. r.peer = PeerId[r.quote.pub_key]
    BY <1>2 DEF IInv, ResponsesReal, ResolvesBeforePay
<1>6. r.quote.terms.price \in BoundPrices(r.quote.pub_key, r.quote.terms.commitment_pin)
    BY <1>3, <1>4, <1>5, KeyAssumption DEF BoundTo
<1> DEFINE k == r.quote.pub_key
           price == r.quote.terms.price
<1>7. price \in SignedPrices(k) /\ price \in PriceSet
  <2>1. CASE price = calculate_price(0)
    BY <2>1, CountAssumption DEF SignedPrices, PriceSet
  <2>2. CASE price # calculate_price(0)
    <3>1. PICK s \in published :
              /\ s.sender_public_key = k /\ s.sender_peer_id = PeerId[k]
              /\ price = calculate_price(s.key_count)
      BY <1>6, <2>2 DEF BoundPrices
    <3>2. s.key_count \in KeyCount
      BY StatementFields DEF IInv, TypeOK
    <3>3. price \in SignedPrices(k)
      BY <3>1 DEF SignedPrices
    <3> QED  BY <3>1, <3>2, <3>3 DEF PriceSet
  <2> QED  BY <2>1, <2>2
<1> QED  BY <1>1, <1>3, <1>7

LEMMA PaymentsAreBatches ==
    CarefulPayments = UNION {Batch(c) : c \in {c \in Careful : phase[c] = "paid"}}
BY DEF CarefulPayments, Batch

LEMMA PayAndPutPays ==
    ASSUME IInv, NEW c \in Client, PayAndPut(c)
    PROVE  (c \in Careful /\ Promise!Pay(c)) \/ UNCHANGED Promise!vars
<1>1. /\ phase[c] = "collecting" /\ phase' = [phase EXCEPT ![c] = "paid"]
      /\ collected' = collected /\ published' = published
    BY DEF PayAndPut, node
<1>2. BoundNow' = BoundNow
    BY <1>1, BoundIsKept
<1>3. \A d \in Client : phase'[d] = IF d = c THEN "paid" ELSE phase[d]
    BY <1>1 DEF IInv, TypeOK
<1>4. Careful \subseteq Client
    BY ActorAssumption
<1>5. \A p \in CarefulPayments : p.payer # c
  <2>1. ASSUME NEW p \in CarefulPayments PROVE p.payer # c
    <3>1. PICK d \in Careful : phase[d] = "paid" /\ p \in Batch(d)
      BY PaymentsAreBatches
    <3>2. p.payer = d
      BY <3>1, PaymentIsBound
    <3> QED  BY <1>1, <3>1, <3>2
  <2> QED  BY <2>1
<1>6. \A d \in Careful : Batch(d)' = Batch(d)
    BY <1>1 DEF Batch
<1>7. CarefulPayments' = UNION {Batch(d)' : d \in {d \in Careful : phase'[d] = "paid"}}
    BY DEF CarefulPayments, Batch
<1>8. CarefulPayments' = UNION {Batch(d) : d \in {d \in Careful : phase'[d] = "paid"}}
    BY <1>6, <1>7
<1>9. CASE c \in Careful
  <2>1. {d \in Careful : phase'[d] = "paid"} = {d \in Careful : phase[d] = "paid"} \cup {c}
    BY <1>3, <1>4, <1>9
  <2>2. CarefulPayments' = CarefulPayments \cup Batch(c)
    BY <1>8, <2>1, PaymentsAreBatches
  <2>3. \A p \in Batch(c) : /\ p \in [payer : Careful, node : Key, price : PriceSet]
                            /\ p.payer = c /\ p.price \in BoundNow[p.node]
    BY <1>9, PaymentIsBound DEF BoundNow
  <2>4. Batch(c) \in SUBSET {p \in [payer : Careful, node : Key, price : PriceSet] :
                                p.payer = c /\ p.price \in BoundNow[p.node]}
    BY <2>3
  <2> QED  BY <1>2, <1>5, <1>9, <2>2, <2>4
           DEF Promise!Pay, Promise!Payment, BoundNow, PriceSet
<1>10. CASE c \notin Careful
  <2>1. {d \in Careful : phase'[d] = "paid"} = {d \in Careful : phase[d] = "paid"}
    BY <1>3, <1>4, <1>10
  <2>2. CarefulPayments' = CarefulPayments
    BY <1>8, <2>1, PaymentsAreBatches
  <2> QED  BY <1>2, <2>2 DEF Promise!vars, BoundNow
<1> QED  BY <1>9, <1>10

\* A payer collects only as long as it has not paid.
LEMMA CollectStutters ==
    ASSUME IInv, NEW c \in Client, NEW k \in Key, Collect(c, k)
    PROVE  UNCHANGED Promise!vars
<1>1. /\ phase[c] = "collecting" /\ phase' = phase /\ published' = published
      /\ \A d \in Client : d # c => collected'[d] = collected[d]
    BY DEF Collect, IInv, TypeOK
<1>2. \A d \in {d \in Careful : phase[d] = "paid"} : Batch(d)' = Batch(d)
    BY <1>1, ActorAssumption DEF Batch
<1>3. CarefulPayments' = UNION {Batch(d)' : d \in {d \in Careful : phase'[d] = "paid"}}
    BY DEF CarefulPayments, Batch
<1>4. CarefulPayments' = CarefulPayments
    BY <1>1, <1>2, <1>3, PaymentsAreBatches
<1> QED  BY <1>1, <1>4, BoundIsKept DEF Promise!vars, BoundNow

LEMMA StepIsStep ==
    ASSUME IInv, [Next]_vars
    PROVE  [Promise!Next]_(Promise!vars)
<1>1. CASE \E k \in Key : Rotate(k)
    BY <1>1, RotateBinds DEF Promise!Next
<1>2. CASE \E c \in Client : PayAndPut(c)
    BY <1>2, PayAndPutPays DEF Promise!Next
<1>3. CASE \E c \in Client, k \in Key : Collect(c, k)
    BY <1>3, CollectStutters
<1>4. CASE \/ \E s \in Storer : Hear(s) \/ Forget(s) \/ Judging(s)
           \/ UNCHANGED vars
  <2>1. UNCHANGED <<phase, collected, published>>
    BY <1>4 DEF Hear, Forget, Judging, client, node, vars
  <2>2. CarefulPayments' = CarefulPayments
    BY <2>1 DEF CarefulPayments
  <2> QED  BY <2>1, <2>2, BoundIsKept DEF Promise!vars, BoundNow
<1> QED  BY <1>1, <1>2, <1>3, <1>4 DEF Next

\* Nodes, clients and storers that keep to the checks of the crate implement
\* ResolveBeforePay.
THEOREM PromiseIsKept == Spec => KeepsPromise
<1>1. Init => Promise!Init
    BY InitIsInit
<1>2. IInv /\ [Next]_vars => [Promise!Next]_(Promise!vars)
    BY StepIsStep
<1> QED  BY <1>1, <1>2, Invariance, PTL DEF Spec, KeepsPromise, Promise!Spec

=============================================================================
