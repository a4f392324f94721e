--------------------------- MODULE PointerRecord ---------------------------
(***************************************************************************)
(* The pointer record of src/pointer.rs: what is signed, what the wire      *)
(* carries, what parsing and verification accept, and the merge rule.       *)
(*                                                                         *)
(* Abstraction.  Keys are model values, so a public key stands for itself.  *)
(* A 32-byte XorName is a natural number: only its order matters.  BLAKE3   *)
(* derive_key is injective, so a signed body stands for its state_id, and   *)
(* PointerAddress is an injection.  A signature is the pair of what was     *)
(* signed and by whom, plus the randomness ML-DSA adds to every signature.  *)
(***************************************************************************)
EXTENDS Integers

CONSTANTS
    Owner,            \* ML-DSA-65 key pairs
    Name,             \* XorNames, ordered as their bytes
    Target,           \* the targets in use
    FinalCounter,     \* u64::MAX
    PointerAddress,   \* pointer_address as a function on owner keys
    Nonce             \* the randomness of one signature

ASSUME CounterAssumption == FinalCounter \in Nat
ASSUME NameAssumption == Name \subseteq Nat
ASSUME TargetAssumption == Target \subseteq [kind_tag : 0..255, address : Name]
ASSUME AddressAssumption ==
    /\ PointerAddress \in [Owner -> Name]
    /\ \A o, p \in Owner : PointerAddress[o] = PointerAddress[p] => o = p

POINTER_FORMAT_VERSION == 1
Version == 0..255
Counter == 0..FinalCounter

\* The signed body.  Body is also the set of state identifiers.
Body == [version : Version, owner : Owner, counter : Counter, target : Target]

Signature == [signer : Owner, over : Body, nonce : Nonce]

\* What can arrive in place of a well-formed encoding: the wrong number of
\* bytes, an owner key that does not decode, a signature that does not decode.
Shape == {"exact", "wrong_length", "bad_key", "bad_signature"}

Bytes == [shape : Shape, body : Body, sig : Signature]

-----------------------------------------------------------------------------
(* Parsing and verification *)

encode_body(version, owner, counter, target) ==
    [version |-> version, owner |-> owner, counter |-> counter, target |-> target]

pointer_address(body) == PointerAddress[body.owner]

\* PointerState::parse: length, version and owner key; no signature check.
Parses(bytes) ==
    /\ bytes.shape # "wrong_length"
    /\ bytes.body.version = POINTER_FORMAT_VERSION
    /\ bytes.shape # "bad_key"

\* A plausible slip in Verifies: the signature is checked, but not over this body.
VerifiesSigner(bytes) ==
    /\ bytes.shape # "bad_signature"
    /\ bytes.sig.signer = bytes.body.owner

\* Pointer::verify_parsed: the signature decodes and covers exactly this body
\* under the owner key the body carries.
Verifies(bytes) ==
    /\ bytes.shape # "bad_signature"
    /\ bytes.sig.signer = bytes.body.owner
    /\ bytes.sig.over = bytes.body

FromBytes(bytes) == Parses(bytes) /\ Verifies(bytes)

\* Pointer::sign.  The caller passes the secret key and the owner key apart;
\* the result is a Pointer only if it survives FromBytes.
Sign(secretKey, owner, counter, target, nonce) ==
    LET body == encode_body(POINTER_FORMAT_VERSION, owner, counter, target)
    IN  [shape |-> "exact",
         body  |-> body,
         sig   |-> [signer |-> secretKey, over |-> body, nonce |-> nonce]]

-----------------------------------------------------------------------------
(* The merge rule *)

\* Lexicographic order of the 33 target bytes: the kind tag, then the address.
TargetBytesBelow(t, u) ==
    \/ t.kind_tag < u.kind_tag
    \/ t.kind_tag = u.kind_tag /\ t.address < u.address

\* Plausible slips in MergeRank: no tie-break, std::cmp::Reverse forgotten,
\* and an order that is not strict.
OutRanksByCounter(s, t) == s.counter > t.counter

OutRanksForwards(s, t) ==
    \/ s.counter > t.counter
    \/ s.counter = t.counter /\ TargetBytesBelow(t.target, s.target)

OutRanksOrEqual(s, t) ==
    \/ s.counter > t.counter
    \/ s.counter = t.counter /\ ~ TargetBytesBelow(t.target, s.target)

\* MergeRank: a larger counter, then smaller target bytes.
OutRanks(s, t) ==
    \/ s.counter > t.counter
    \/ s.counter = t.counter /\ TargetBytesBelow(s.target, t.target)

is_terminal(s) == s.counter = FinalCounter

replacesFinal(s, t) ==
    /\ pointer_address(s) = pointer_address(t)
    /\ OutRanks(s, t)

\* PointerState::replaces
replaces(s, t) ==
    /\ pointer_address(s) = pointer_address(t)
    /\ ~ is_terminal(t)
    /\ OutRanks(s, t)

-----------------------------------------------------------------------------
(* Successors and transfer *)

POINTER_KIND == 1

PointerTarget(recipient) == [kind_tag |-> POINTER_KIND, address |-> recipient]

NextCountersUnchecked(s) == {s.counter + 1}

\* Pointer::next_counter is checked_add(1): there is none at FinalCounter.
NextCounters(s) == {s.counter + 1} \cap Counter

redirected_to(s) ==
    IF s.target.kind_tag = POINTER_KIND THEN {s.target.address} ELSE {}

\* PointerState::transferred_to, as the set of addresses handed over to.
transferred_to(s) ==
    IF s.target.kind_tag = POINTER_KIND /\ is_terminal(s)
    THEN {s.target.address}
    ELSE {}

=============================================================================
