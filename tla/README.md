# Models and proofs of ant-protocol

`ant-protocol` is the crate that clients and nodes of the Autonomi network share: the wire
messages, the record formats and the payment rules both sides must agree on. It holds little
state of its own. What is hard in it is that its functions are called by several parties, at
different times, in different orders, on different releases, and must still give answers that fit
together. That is what these modules model.

- [Inventory](#inventory) — the parts of the crate and what makes each correct
- [Modules](#modules) — which module models what, and how it corresponds to the code
- [Runs](#runs) — what TLC checks, with which bounds
- [Fairness](#fairness)
- [Proofs](#proofs) — what is proved for every instance, from what, and how
- [Notes on the code](#notes-on-the-code)
- [Not modelled](#not-modelled) and [Plan](#plan)

To repeat it: `tlc -config pointer_node.cfg MCPointerNetwork.tla` for a run,
`tlapm PointerNetworkProofs.tla` for a proof.

## Inventory

Paths are those of the repository, which is in `src/`; the crate's code is in `src/src/`.

### Pointer records — `pointer.rs`

A mutable, owner-signed record at an address derived from the owner's key.

- *State*: a `Pointer` (format version, owner, counter, target, signature) and its bytes; a node
  holds one per address, an owner's device holds the one it will build the next on.
- *Operations*: `create`, `update`, `finalize`, `transfer_to`, `sign`, `from_bytes`;
  `ParsedPointer::parse`, `Pointer::verify_parsed`, `PointerState::replaces`, `is_terminal`,
  `transfer_target`.
- *Interactions*: devices put records on the network; nodes parse, compare, verify and merge them,
  and answer with `PointerPutResponse`; readers fold what several nodes return with `replaces`.
- *Hard*: records arrive in any order, late, more than once, forged or damaged; nodes check one
  record while others are merged; signatures are randomised, so one state has many valid
  encodings; several devices may share a key; releases with two merge rules meet on one network;
  the counter ends at `u64::MAX`.
- *Correct when*: nodes that saw the same states agree, except on rival final states; nothing
  forged is stored; a node's answers stay true; a final state is held for ever; no state is paid for
  once and written twice; a sole careful writer never forks; forks of careless writers below the
  final counter heal.

### Chunk request and response — `chunk_protocol.rs`

`send_and_await_chunk_response`: one RPC over a shared event stream.

- *State*: a broadcast receiver, a deadline, the pending call.
- *Operations*: subscribe, send, receive events, filter by topic, source, decoding and
  `request_id`, ask the caller's handler, time out.
- *Interactions*: `P2PNode` of saorsa-core, its bounded event channel, the remote peer.
- *Hard*: answers that overtake the send; answers to other calls; a receiver that falls behind;
  traffic that keeps waking the loop; a channel that closes.
- *Correct when*: a call resolves only with its own answer, does not drop that answer, and ends.

### Single-node payment — `payment/single_node.rs`

- *State*: a `SingleNodePayment` (quotes sorted by price, an amount for each) rebuilt on each side;
  the payment vault on chain.
- *Operations*: `from_quotes`, `pay`, `verify`.
- *Interactions*: client and storer never share the value: each sorts its own list; the wallet and
  the vault contract (evmlib) sit between them.
- *Hard*: quotes that tie at the median sort differently on the two sides; `pay` fails after its
  transaction went out, and is retried; payments land while `verify` is reading; zero prices and
  overflow.
- *Correct when*: what a client paid a storer accepts; what a storer accepts was paid; retries do
  not spend without bound.

### Settlement versions — `chunk.rs`

- *State*: `CURRENT_SETTLEMENT_VERSION` and `MIN_SUPPORTED_SETTLEMENT_VERSION`, constants of a
  build; the version in a V2 quote request.
- *Operations*: `settlement_compatibility`, `ChunkQuoteRequestV2::new`,
  `MerkleCandidateQuoteRequestV2::new`, the errors `ClientUpdateRequired` and
  `StorerUpdateRequired`.
- *Hard*: clients and storers upgrade one by one, also between a quote and the PUT it was for; a
  payment made under the wrong rule is lost.
- *Correct when*: no client pays after a quote for a payment its storer's rule refuses; only clients
  that an update would help are told to update.

### Pricing, quotes, commitments and proofs — `payment/pricing.rs`, `verify.rs`, `commitment.rs`, `proof.rs`

A node commits, in a signed statement, to how many records it holds; each quote pins the commitment
by hash and asks the price of its count. A client resolves the pin before it pays; a storer checks
again when the PUT arrives.

- *State*: a `StorageCommitment`, the quotes and merkle candidates that pin it, the tagged bytes of a
  proof; around them the current commitment of each node, the commitments a storer has at hand.
- *Operations*: `calculate_price` and `derive_records_stored_from_price`;
  `commitment_signed_payload`, `verify_commitment_signature`, `commitment_hash`;
  `verify_quote_content`, `verify_quote_signature`, `verify_merkle_candidate_signature`; the
  serialisers, the tag and the decoders of `PaymentProof` and of merkle proofs.
- *Interactions*: nodes commit and quote, clients check, pay and bundle, storers decode, look up and
  check, each at its own time; gossip moves commitments between storers.
- *Hard*: nodes commit anew between a quote and its PUT; caches lose what was pinned; a merkle proof
  carries no sidecars; a commitment that belongs to another node, a quote of another node, a
  signature over something else; counts at the limit, prices no count has.
- *Correct when*: nobody careful pays, and no storer accepts, a price its node is not bound to; what
  a careful client paid is never refused; honest nodes can always be paid and are never convicted; a
  price tells the count.

### Chunk messages between releases, and get-or-closer — `chunk.rs`

- *State*: the enums `ChunkMessageBody` and `ProtocolError`, which grew at their end; the user agent
  a client last heard of each node.
- *Operations*: `ChunkMessage::encode` and `decode` with its cap, the request, response and error
  types, `advertises_get_or_closer`.
- *Interactions*: a client encodes on its release, a node decodes and answers on its own, and the
  answer comes back to whatever release the client then runs.
- *Hard*: a variant is its position and nothing else; both sides go forward and back between
  releases; what is heard of a node goes stale; answers come late; the cap must let through what was
  stored.
- *Correct when*: nothing is read as something else; a client that waits can read its answer; no
  request is dropped without a reason; no answer is taken for another's.

### The rest

`data_types.rs` has content addresses, the XOR distance and `DataChunk`, all pure;
`devnet_manifest.rs`, `error.rs`, `logging.rs`, `lib.rs` and `payment/mod.rs` have records,
messages, macros and re-exports.

## Modules

    PointerRecord ──> PointerNetwork ──> MCPointerNetwork        PointerRegister (abstract)
         │                 └─> PointerNetworkProofs                  ^ implemented by PointerNetwork
         └─> PointerRecordProofs
    ChunkCall ──> MCChunkCall, ChunkCallProofs                   CallContract (abstract)
    MedianQuote ──> SingleNodePayment ──> MCSingleNodePayment        ^ implemented by ChunkCall
         └─> MedianQuoteProofs  └─> SingleNodePaymentProofs
    SettlementHandshake ──> MCSettlementHandshake, SettlementHandshakeProofs
    Pricing ──> QuoteRecord ──> QuoteBinding ──> MCQuoteBinding  ResolveBeforePay (abstract)
                                     └─> QuoteBindingProofs          ^ implemented by QuoteBinding
    Wire ──> MCWire, WireProofs                                  CallTypes (abstract)
                                                                     ^ implemented by Wire

### PointerRecord

The values and pure functions of `pointer.rs`: a record as bytes (`Bytes`: its length class, body
and signature), `Parses`, `Verifies`, `FromBytes`, `Sign`, the merge rank (`OutRanks`),
`replaces`, `is_terminal`, `NextCounters` (`next_counter`, nothing at the top) and
`transferred_to`. Hashing is injective (`PointerAddress`), a signature is the key that made it, the
body it covers and a nonce. `FINAL_COUNTER` is a constant, so that the counter can run out in a small
instance. Targets are compared by kind tag, then address, as their bytes are.

### PointerNetwork

Devices and nodes. A device action is one call: `Create`, `Update`, `Finalize`, `TransferTo`,
`SignRaw`, and `Load`, which takes up a record read back from the network (a careful device folds it
with `replaces`; one in `Careless` may take any). `Damage` puts altered copies on the wire. A node
handles a PUT in two steps, because signature checking is slow and many run at once: `Receive`
parses and answers `Unchanged` if the state is the one held (`Recognise`, before any signature is
looked at), or keeps a `ParsedPointer` (`Admit`); later `Verify` checks it, and stores it or keeps
what is then held. What is held may change in between, and the merge is by what is held then.

Nodes in `LegacyNode` merge by the rule of release 3.1.0, which had no rule for final states.
The node half is not in this crate. It is taken from the comments on `ParsedPointer`, `replaces` and
`PointerPutResponse`, and marked external.

`PointerRegister` is what a reader of an address is promised: each replica keeps one authored state
and moves forward by the documented rules only. It restates those rules rather than use `replaces`.

### ChunkCall

The event loop. `pc` follows the code: `sending` (subscribed, `send_message` awaited), `check`
(`while Instant::now() < deadline`), `poll` (`timeout(remaining, events.recv())`), `done`. Each arm
is an action: a message (`PollEvent`, with the filters of `Accepts`), `PollLagged`, and `PollEnds`
for a closed channel and an elapsed timeout. `left` is the time to the deadline and is set when
`send_message` has returned, as in the code. `inbox` is the receiver: `Deliver` adds to every
subscriber's, and pushes the oldest event out of a full one. A peer answers a call once at
most; its answer may be lost, late or delivered twice; `Foreign` holds the events that answer no
call. `CallContract` is the promise to the caller.

### MedianQuote and SingleNodePayment

`MedianQuote` has the computation: a stable sort, the middle quote, three times its price with
`checked_mul`, and the positions `verify` looks up (`Tied`). `SingleNodePayment` has the actors.
`Pay` sends the transactions, `PayReturns` and `PayFails` end the call; `PayFails` may follow a
transaction that is mined later (`Mine`) or never (`Drop`). `Verify` starts at a storer with the
same quotes in any order; each `Lookup` reads the chain once. Three things are history, for the
properties. Calls of `pay` are numbered and a transaction carries its call, since the vault shows one
amount for a quote however often it was paid; `mined` keeps all payments made. `receipts` are the
calls that returned `Ok`. `paidBefore` says whether the money was there, or `pay` had returned, when
the check began.

### SettlementHandshake

Releases are numbered; `MinVersion` and `CurrentVersion` give each its two constants, and
`FirstVersioned` is the first that has the V2 requests. `Ask`, `Answer`, `Hear`, `Pay` and
`PutChunk` are one upload; `UpgradeClient` and `UpgradeStorer` move to the next release at any
time (a client not between paying and its PUTs). `Staged` restricts storers to the rollout
that the comment on `MIN_SUPPORTED_SETTLEMENT_VERSION` describes. Only the request with its
version and `settlement_compatibility` are in the crate; the rest is from its comments.

### Pricing, QuoteRecord and QuoteBinding

`Pricing` is the price formula and its inverse with the saturation of both, over constants: TLC uses
small ones, the proofs any. `QuoteRecord` has the statements nodes sign, the crate's checks of them,
and the proof bytes with their tags and decoders. A signature is its key, its context and the message
signed, and only what is fed to it is in that message: content, price, rewards address, count and pin
for a quote (`bytes_for_sig`, evmlib's), the same with the payment's timestamp for a merkle candidate
(`bytes_to_sign`, as `verify_merkle_candidate_signature` calls it). Neither says which of the two it
is. A hash is injective; a sidecar that is too large does not parse. The crate has its checks one by
one. Which of them make up a client's (`ResolvesBeforePay`) and a storer's (`Judge`, `Outcome`), with
the gates on a sidecar (`Pinned`), the comparison of the counts and what is forwarded (`Forwards`),
is ant-client's and ant-node's, taken from the crate's comments and marked external.

`QuoteBinding` has the actors. `Rotate`: a node commits, to other records than before. `Collect`: a
client hears of a node. `PayAndPut`: it pays, and the proof goes out in its bytes. `Hear` and
`Forget`: a storer's cache. `Judging`: a storer decodes a proof by its tag and checks it with its
cache and the sidecars, as often as it likes. Honest nodes follow the rules. The others sign any
statement and any quote of their own and pass on quotes and commitments of others. A client in
`Careful` resolves before it pays, the others pay for anything. Who calls the checks, and when, is
ant-client's and ant-node's; it is taken from the crate's comments and marked external.

`ResolveBeforePay` is the promise to those who pay: nodes bind themselves to prices, never take one
back, and are paid no other.

### Wire and CallTypes

`ChunkMessageBody(b)` and `ProtocolError(b)` are the enums of release `b` in the order of the source,
`encode` turns names into positions by the writer's enum and `decode` turns them back by the
reader's, or yields nothing. There are four releases: the first, and those that added settlement
versions, pointers and get-or-closer. A client asks under an id of its own with what its release has
(`Ask`), keeps what answers a request it waits on (`Hear`, `Takes`), gives up, restarts on any
release, and learns a node's user agent (`Meet`). A node restarts on any release, drops what it
cannot read (`Drop`), refuses (`Refuse`) or does what was asked (`Serve`). Messages are lost and
late. What a message holds is its size, which is all the cap sees. `CallTypes` is the same with
neither bytes nor releases.

## Runs

| run | question | bounds |
|---|---|---|
| `pointer_node` | does one node stay right whatever arrives, and implement the register? | two owners (one device goes back to old records, one signs any counter), two signatures per state, three forgeries, counters 0–2, three records on the wire |
| `pointer_replicas` | do two nodes agree whatever the order? | one owner signing any counter 0–1, two targets, three records, nodes symmetric |
| `pointer_sole` | can a sole careful device fork, or redirect to two places? | one device, two pointer targets, two nodes, counters 0–2, three records |
| `pointer_heal` | do two unsynchronised devices heal, with a node on the old rule? | two devices, one key, two nodes, one of them on 3.1.0, two records |
| `call_pair` | do concurrent calls take or drop each other's answers, and do they end? | two calls to one peer, four near misses, queue of 1, timeouts 1 and 2 with the clock at 3 |
| `call_closed` | is `timeout_error` only for the deadline? (no) | one call, timeout 2, queue of 2 |
| `payment_ties` | do the two sides fit when prices tie, are zero or overflow, and what does a call of `pay` cost? | groups of three and of a wrong size, two clients (symmetric), one storer that verifies again and again, two calls of `pay`, greatest amount 5 |
| `settlement_upgrade` | is a quote honoured through upgrades, and who is told to update? | one client, two storers upgraded apart, four releases |
| `settlement_staged` | does the documented rollout strand anybody? | two clients, one storer, four releases |
| `binding_pay` | what does a careful client pay for, does it stand, and whom can evidence convict? | a careful client, two quotes, two subjects, two rewards addresses, an honest node and one that sends anything, two commitments, counts 0–3 with a limit of 2 |
| `binding_check` | what do storers accept of anybody, and what do they read off a price? | a client that checks nothing and bundles as old releases did, one quote of one subject, prices off the formula, counts 0–2 |
| `wire_releases` | do releases understand each other through upgrades and downgrades? | one client, one node, releases 1, 2 and 4, two calls of three kinds, chunks of 4 and 5 with a limit of 4, wire cap 6 |

Why the bounds are enough to be worth running:

- `WireBound` counts *different* records; each may arrive any number of times at any node. Three
  are needed for a merge that is not transitive, or depends on order, to show; two rival final
  states need two. With `FinalCounter` 2 a device can create, update and finalize, or run out.
- A queue of 1 overruns with two events, fewer than the events there are; the two timeouts differ,
  so that one call is past its deadline while the other waits. A timeout so long that the deadline
  does not fit the clock (the call then ends at once) is in the proofs only.
- Groups of three are the smallest odd group with a median that can tie on either side; the code's
  seven is covered by the proofs, which take any size. Two calls can pay one quote twice, by two
  clients or by a retry. The one storer keeps what it accepted until it begins to verify again, which
  is all `StorersFollow` needs; it has two storers in the proofs.
- Four releases hold the cases of the version rule: without versions, the first with them, and, in
  the abrupt history, `MIN` and `CURRENT` raised at once; in the staged one, `CURRENT` ahead and
  `MIN` following.
- Two subjects let a node answer with a quote of other content, two addresses with one that is paid
  to somebody else. Two commitments are one before and one after a quote. Counts reach the limit on
  committed keys and pass it. The price constants (7, 12, 2) keep what matters of the source's: the coefficient is a
  multiple of the squared divisor, and there are amounts between the prices of two counts.
- Releases 1, 2 and 4 are before and after each growth of the enums; release 3 only adds requests in
  between, and is in the proofs. One request is of the first release, one declares a version, one
  needs an announcement; one of the errors is old and one new. The greatest chunk fits the cap with
  its envelope and a proof to the byte, and the next greater one with its envelope alone.

Deadlock is not checked anywhere: once its bounded input is used up each of these systems is
finished. That calls come to an end is checked as liveness instead (`CallsEnd`).

Every property of a passing run is shown to depend on the code by a mutant in `PROJECT.json`: a
definition replaced by a plausible slip (a dropped filter, a comparison by counter alone, a sort
taken on trust), under which the run fails.

`call_closed` is the one run that fails, on purpose. The documentation of
`send_and_await_chunk_response_with_metadata` gives `timeout_error` to "deadline expiry"
(`chunk_protocol.rs:41`, `84-85`); the code also returns it, at once, when the event channel closes
(`chunk_protocol.rs:146`). A caller cannot tell a node that shut down from a slow peer.

## Fairness

- `pointer_heal` (`Heals`): weak fairness of each node receiving a genuine record it has not
  answered for, and of verifying what it parsed. This is the network's replication and the node's
  worker; without either, agreement is not to be had from any merge rule. Devices have no fairness:
  they may stop at any time.
- `call_pair` (`CallsEnd`): weak fairness of the task of each call and of the clock. tokio wakes a
  task whose event or timer is ready, and time passes. The step in which `send_message` returns is
  part of the task's; that is an assumption, see the notes. Peers and transport have no fairness.

The other runs check safety only and use `Spec`.

## Proofs

The proofs are for every value of the constants under the assumptions named in the modules: any
number of devices, nodes, owners, names and counters; any calls, peers, timeouts and capacity;
any group size and amounts; any release history in which versions are not taken back; any nodes,
honest or not, any commitments, counts, price constants and storers; any chunk sizes, and any subset
of the releases.

| theorem | module | says |
|---|---|---|
| `ReplacesIsAStrictOrder`, `ReplacesIsTotalBelowTheFinalCounter` | `PointerRecordProofs` | the merge rule is a strict order, and total except between two final states |
| `FoldsAgree`; `MergingIsAssociative`, `MergingCommutesButForRivalFinals` | `PointerRecordProofs` | readers that fold the same records of a pointer, in any order and with repetitions, end with the same one; order matters for rival finals only |
| `AcceptedIsExactlySigned`, `SuccessorReplaces` | `PointerRecordProofs` | `from_bytes` takes what the owner signed and nothing else; a successor replaces what it succeeds |
| `TypeCorrect`, `Authenticity`, `Replies`, `Settlement`, `Finality`, `Convergence`, `StoredOnce`, `Updates` | `PointerNetworkProofs` | the properties of `pointer_node`, `pointer_replicas`, and `UpdatesReplace` |
| `AuthenticAnswers` | `PointerNetworkProofs` | every state an answer vouches for is signed, though `Unchanged` is said before any signature is checked |
| `CaughtUpAgree` | `PointerNetworkProofs` | nodes that answered for every signed record of an address hold the one that beats all others |
| `Refinement` | `PointerNetworkProofs` | the network implements `PointerRegister` |
| `SoleWriterNeverForks`, `SoleWriterRedirectsOnce` | `PointerNetworkProofs` | `NoFork` and `OneRedirect`, assuming `SoleWriter` |
| `TypeCorrect`, `Matching`, `Attention`, `Refinement` | `ChunkCallProofs` | the safety properties of the calls, and that they implement `CallContract` |
| `TimeoutCauses`, `DeadlineIsFirm` | `ChunkCallProofs` | `timeout_error` means deadline or closed channel; no event moves the deadline, and past it a call polls once more at most |
| `LateCallsEnd` | `ChunkCallProofs` | a call past its deadline ends, if its task runs when it can |
| `MedianIgnoresOrder`, `FromQuotesIgnoresOrder`, `SortingSorts` | `MedianQuoteProofs` | the median price does not depend on the order of the quotes; the sort is one, and stable |
| `AMajorityBoundsTheMedian` | `MedianQuoteProofs` | any majority of a group has a quote at or above the price paid and one at or below it |
| `TypeCorrect`, `PaymentSuffices`, `NothingIsFree`, `Agreement` | `SingleNodePaymentProofs` | the invariants of `payment_ties` on the fit of the two sides |
| `BoundedSpending`, `PaymentsAreExact` | `SingleNodePaymentProofs` | what money goes out: a call of `pay` makes one payment at most, and one that returned `Ok` made exactly one, which is mined (none for a free median) |
| `AcceptanceIsShared`, `SameQuotesPaid` | `SingleNodePaymentProofs` | what one storer accepted, the next starts to look up with the money there (`StorersFollow`); the quote that a client pays is among those a storer with the same quotes looks up |
| `TypeCorrect`, `Keeping`, `Telling`, `StagedRollout` | `SettlementHandshakeProofs` | types, and the properties of the settlement runs, the last assuming `Staged` |
| `PromiseIsTheRule`, `NoWayBack` | `SettlementHandshakeProofs` | `Compatible` is said exactly where the payment will be accepted, `ClientTooOld` exactly where it will not; a storer's answer to a version moves through the three in one direction |
| `PriceRoundTrip`, `GreatestCount` | `QuoteBindingProofs` | the inverse gives every count back, and for any amount at all the greatest count it pays |
| `PricesClimb`, `SourceConstantsFit` | `QuoteBindingProofs` | each record more costs strictly more; the constants of `pricing.rs` meet what `Pricing` assumes |
| `OnlyUnresolvedChanges` | `QuoteBindingProofs` | for any proof bytes, more commitments turn "unresolved" into a decision and change none |
| `StorersAgree`, `GossipSettlesCarefulPayments` | `QuoteBindingProofs` | no two storers come to opposite ends on one proof; for a careful client's, commitments exist with which all accept it |
| `TypeCorrect`, `CarefulClientsPayBoundPrices`, `StorersAcceptBoundPrices`, `CarefulPaymentsStand`, `HonestNodesAreSafe`, `HonestNodesResolve`, `DerivedCountsAreGreatest`, `AcceptedPricesTellCounts` | `QuoteBindingProofs` | the safety properties of the two binding runs |
| `PromiseIsKept` | `QuoteBindingProofs` | the quote system implements `ResolveBeforePay` |
| `ReadsWhatWasWritten` | `WireProofs` | what a release reads of what another wrote is the message or nothing, and when which |
| `LaterReleasesReadEarlier` | `WireProofs` | whatever an earlier release can say, a later one reads |
| `TypeCorrect`, `NeverMisread`, `AlwaysUnderstood`, `OnlyDroppedForAReason` | `WireProofs` | types, and the safety properties of `wire_releases` |
| `ImplementsTypes` | `WireProofs` | messages between releases implement `CallTypes` |

**Assumptions.** Addresses of two owners differ (a hash collision is left out). Two calls to one
peer never share a `request_id` — the documentation asks the caller for that — and no event that
answers no call passes for an answer. Versions grow from release to release, and `MIN` never exceeds
`CURRENT`. The group size is positive. The price coefficient is a positive multiple of the squared
divisor, and no count that fits its type reaches the greatest amount: both hold of the source's
constants (`SourceConstantsFit`). Peer ids of two keys differ, an honest node is paid at one address,
and a commitment in circulation that its key did not sign does not verify. A chunk of the greatest size fits the cap with its envelope. That only requests
which declare a version are refused for it is in `Refusals`, from the comments on the two errors.

**Inductive invariants.** None of the properties is inductive as it stands; each component has an
`IInv`.

- *PointerNetwork*: what is parsed came off the wire and parses; what is held came off the wire,
  verified, at its own address; every answer a node ever gave is *covered* — what it said it held is
  still held or beaten by what is held, and what was submitted is what it held or lost to it; and
  nothing is held that was not answered for. `Covered` carries the history that the merge rule
  alone does not show; with transitivity it gives the reply properties, with totality below
  the final counter it gives `Convergent`. It is stated with `Beats`, the rule of the node's own
  release, so that convergence is proved for a network that mixes releases.
  `AuthenticAnswers` needs more (`GInv`): each signature on the wire is that of genuine bytes that
  were on the wire, so that a state a node recognises before checking is one somebody signed.
  `FoldsAgree` is an induction over the records received, phrased as the least element of a set of
  positions, since the induction theorems of the library are out of reach.
  For sole writers a second invariant says that the record a device has in hand has a greater counter
  than everything else its key signed.
- *ChunkCall*: responses on the wire carry the peer and id of the call they answer; queues hold
  nothing else but foreign events; where a call is agrees with its outcome; and an answer that
  reached a call is in its queue, was read, or was overrun. `LateCallsEnd` is the one temporal
  argument: past the deadline a call goes from `poll` to `check` to `done` by steps of its own, and
  no step of others moves it back. Its fairness is written out with the guards of the task's steps.
- *SingleNodePayment*: what is paid or about to be is three times the quote's price; a client's
  payment is what `from_quotes` made of its list; calls have numbers of their own, all their payments
  are of one batch, and a batch is one payment at most; a receipt's batch is mined and nothing of it
  is in flight; and a running check that was paid before it began still has a paid quote among those
  it has left to look up. `MedianIgnoresOrder`
  connects the two sides: it is a counting argument (how many quotes are at or below a price),
  not an induction over the sort.
  `AMajorityBoundsTheMedian` is of the same kind: a majority and the quotes on one side of the
  median cannot be disjoint.
- *SettlementHandshake*: each reply was the rule's verdict on a build its storer ran then and has
  not gone back from; each PUT was answered by the rule of its build; a client told to update has a
  storer that dropped its rule. For the staged rollout: no storer's `MIN` is beyond any client.
- *QuoteBinding*: what a client kept of a node carries only commitments in circulation, and resolved
  if the client is careful; a quote of an honest node is the one that a commitment of its own forces;
  a PUT holds the proof of what its client kept; and each verdict was reached on commitments that
  were published. Published commitments are never taken back, which carries all of these through
  rotation and forgetting. `StorersAgree` compares two caches with their union: by
  `OnlyUnresolvedChanges` an acceptance by one and a rejection by the other would both hold there.
  For pricing, that integer square roots exist follows from the least number
  whose square is greater, not from an induction; monotonicity of squares gives the rest.
- *Wire*: the bytes of a request, and of a reply, are some release's for a message that release
  knows; a reply carries its request's id, the response to its variant and no error that request has
  not earned, fits the cap, and was said; a client waits only on what its present release can say;
  ids tell its requests apart; what is held is of legal size. That enums grow only at their end makes
  a position mean the same to every release that has it; that whoever knows a request knows its
  response and the errors it can earn makes the reply readable.

**Only model-checked.** Liveness, `CallsEnd` and `Heals`: `WF_` needs `ENABLED`, which the prover does
not have, and the argument for each is an induction over steps whose number depends on the constants,
which its temporal backend cannot do. What it can is proved: the last leg of `CallsEnd`
(`LateCallsEnd`) and the state `Heals` leads to (`CaughtUpAgree`). Everything else the passing runs
check is also proved. The type invariants of `SettlementHandshake` and `Wire` are proved and not run:
they bound nothing that the code bounds.

## Notes on the code

Found while modelling; what the crate itself decides is in the modules, the rest concerns its users.

- `send_message` is awaited before the deadline is set, so `timeout` does not bound it.
- A receiver that is told it lagged goes on, as it must, but its answer may have been among the lost
  events; the call then ends as a timeout. `NoAnswerDropped` excepts it.
- For a group whose median price is zero, `pay` returns `Ok` without a transaction and `verify`
  refuses. Nothing is lost, but nothing is stored. `SingleNodePayment` shows both.
- `pay` may return `Err` and its transaction land; a retry with the quotes in another order may pay
  another quote of the same price, or the same one again, which the vault does not show.
  `OnePaymentPerCall` bounds the cost by the calls made, not by one.
- `from_quotes` takes the price beside the quote; that it is the price in the quote is for the
  caller to check.
- Two final states of one owner do not replace each other; nodes keep whichever came first. A sole
  careful device never signs two (`NoFork`), two devices may.
- The vault's amount is narrower than `Amount`; the contract is external and its amounts are taken
  as wide as the crate's.
- An unversioned client is served by policy of the storer, and no promise about its payment can be
  had from the crate. A storer that does not know a newer version may accept the payment or not;
  the model leaves both open.
- A merkle proof carries no sidecars, so a storer that never had, or has lost, the pinned commitment
  can only wait for it; `PaidProofsStand` allows that outcome for merkle proofs and for no other.
- `deserialize_proof` leaves out the sidecars of a proof that has them; a storer that used it would
  have to wait where it need not. The checks of `commitment.rs` are separate functions, and the
  signature check alone binds a commitment to no peer: `Pinned` has all that a caller must do.
- The `commitment` field of `ChunkQuoteResponse` was added to an existing message, by its comment as
  a hard cutover. Releases from before it are not among those of `Wire`.
- A get-or-closer request to a node that has gone back to an earlier release is dropped and costs its
  caller a timeout; `DroppedForAReason` says that there is no other way.
- `encode` has no cap: what is too large is found out by the node that drops it.

## Not modelled

- Cryptography, hashing and postcard/rmp encoding: injective or symbolic. What decodes and what does
  not is kept, as a class of bytes.
- Response metadata of a call: handed through unchanged.
- Payment for a pointer write, and `already_stored` quotes: checks of other crates.
- Merkle payments beyond their candidates and proofs: evmlib's.
- The fields of most messages (`Wire` keeps id, variant, error and size). Pointer and settlement
  fields are in the modules of those components.
- The list of closer peers in a get-or-closer reply: opaque in the crate.
- `data_types.rs`: hashing is injective elsewhere in these modules, and the distance is one XOR for
  each byte, called by nothing in this crate; there is no state or actor for a property to be about.
- `error.rs`, `logging.rs`, `devnet_manifest.rs`, `lib.rs`: no behaviour that a property could be
  about. CI configuration is not part of the program.

## Plan

Done, in the order of what a mistake costs: records that cannot be taken back, calls every operation
depends on, money, the upgrade of its rules, prices nodes are bound to, messages between releases.

Left:

1. Composition of `ChunkCall` with `Wire`: calls repeated after a timeout, which may do again what
   was already done.
2. A larger instance of `Wire`, with two nodes on different releases; the proofs cover it, TLC does
   not in a reasonable time.
3. The pointer and settlement messages as variants of `Wire` with their fields.
