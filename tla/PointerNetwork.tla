--------------------------- MODULE PointerNetwork ---------------------------
(***************************************************************************)
(* Owners' devices signing pointer records, and nodes merging them.         *)
(*                                                                         *)
(* Devices run the client half of src/src/pointer.rs: create, update,       *)
(* finalize, transfer_to, and the raw sign those are built from.  Several   *)
(* devices may share an owner key, and none sees another's memory.  Nodes   *)
(* live in another crate; what they do is taken from how pointer.rs and     *)
(* chunk.rs say they use ParsedPointer, replaces and PointerPutResponse:    *)
(* parse, stop early if the state is already held, verify, then store or    *)
(* keep.  A node verifies several records at once, so what it holds can     *)
(* change between parsing a record and merging it.                          *)
(*                                                                         *)
(* A record on the wire stays there: it may reach a node never, once or     *)
(* many times, and in any order.  Payment is an external check and left     *)
(* out.                                                                     *)
(***************************************************************************)
EXTENDS PointerRecord, FiniteSets

CONSTANTS
    Device,
    KeyOf,            \* the key each device signs with
    Node,
    LegacyNode,       \* nodes still on the merge rule of release 3.1.0
    NoPointer,        \* no record
    RawSigner,        \* devices that call Pointer::sign with any counter
    Recipient,        \* addresses a pointer may be handed over to
    Careless,         \* devices that may go back to an earlier record
    Forgery,          \* what a damaged or forged copy may look like
    WireBound         \* how many different records are ever sent

ASSUME KeyAssumption == KeyOf \in [Device -> Owner]
ASSUME LegacyAssumption == LegacyNode \subseteq Node
ASSUME NoPointerAssumption == NoPointer \notin Bytes \cup Body
ASSUME RecipientAssumption == \A a \in Recipient : PointerTarget(a) \in Target
ASSUME ForgeryAssumption == Forgery \subseteq [shape : Shape, body : Body]

VARIABLES
    latest,           \* device -> the record it will build the next one on
    wire,             \* every encoding ever sent
    parsed,           \* node -> ParsedPointers not yet verified
    held,             \* node -> address -> the record stored there
    replies           \* every PointerPutResponse ever sent

vars == <<latest, wire, parsed, held, replies>>

\* A PointerPutResponse with the submission it answers.
Reply == [node : Node, kind : {"Success", "Unchanged", "Stale"},
          submitted : Body, holds : Body]

Init ==
    /\ latest = [d \in Device |-> NoPointer]
    /\ wire = {}
    /\ parsed = [n \in Node |-> {}]
    /\ held = [n \in Node |-> [a \in Name |-> NoPointer]]
    /\ replies = {}

-----------------------------------------------------------------------------
(* Devices *)

Send(bytes) ==
    /\ Cardinality(wire) < WireBound
    /\ wire' = wire \cup {bytes}
    /\ UNCHANGED <<parsed, held, replies>>

\* Pointer::sign: what was signed is a Pointer only if it verifies.
Issue(d, owner, counter, target) ==
    \E nonce \in Nonce :
        LET p == Sign(KeyOf[d], owner, counter, target, nonce)
        IN  /\ FromBytes(p)
            /\ Send(p)
            /\ latest' = [latest EXCEPT ![d] = p]

Create(d) ==
    /\ latest[d] = NoPointer
    /\ \E t \in Target : Issue(d, KeyOf[d], 0, t)

Update(d) ==
    /\ latest[d] # NoPointer
    /\ \E c \in NextCounters(latest[d].body), t \in Target :
           Issue(d, latest[d].body.owner, c, t)

finalizeAgain(d, target) == Issue(d, latest[d].body.owner, FinalCounter, target)

\* Pointer::finalize, and transfer_to when the target is a pointer.
finalize(d, target) ==
    /\ ~ is_terminal(latest[d].body)
    /\ Issue(d, latest[d].body.owner, FinalCounter, target)

Finalize(d) ==
    /\ latest[d] # NoPointer
    /\ \E t \in Target : finalize(d, t)

TransferTo(d) ==
    /\ latest[d] # NoPointer
    /\ \E recipient \in Recipient : finalize(d, PointerTarget(recipient))

\* Pointer::sign called directly, with any owner key and any counter.
SignRaw(d) ==
    /\ d \in RawSigner
    /\ \E owner \in Owner, counter \in Counter, target \in Target :
           Issue(d, owner, counter, target)

LoadAny(d, bytes) ==
    /\ FromBytes(bytes)
    /\ bytes.body.owner = KeyOf[d]
    /\ latest' = [latest EXCEPT ![d] = bytes]
    /\ UNCHANGED <<wire, parsed, held, replies>>

\* A device takes up a record of its own pointer read from the network.
\* A careful one folds with replaces; a careless one (restored from a backup,
\* or never synchronised) may take up any.
Load(d, bytes) ==
    /\ FromBytes(bytes)
    /\ bytes.body.owner = KeyOf[d]
    /\ latest[d] # NoPointer /\ d \notin Careless =>
           replaces(bytes.body, latest[d].body)
    /\ latest' = [latest EXCEPT ![d] = bytes]
    /\ UNCHANGED <<wire, parsed, held, replies>>

\* A copy arrives altered, or claims what its signature does not cover.
Damage(bytes) ==
    /\ \E f \in Forgery :
           Send([shape |-> f.shape, body |-> f.body, sig |-> bytes.sig])
    /\ UNCHANGED latest

-----------------------------------------------------------------------------
(* Nodes *)

HeldAt(n, state) == held[n][pointer_address(state)]

Answer(n, kind, state, holds) ==
    replies' = replies \cup
        {[node |-> n, kind |-> kind, submitted |-> state, holds |-> holds]}

Holds(n, state) ==
    /\ HeldAt(n, state) # NoPointer
    /\ HeldAt(n, state).body = state

\* ParsedPointer::parse succeeds, and the state is already held: answered
\* without verifying the signature.
Recognise(n, bytes) ==
    /\ Parses(bytes)
    /\ Holds(n, bytes.body)
    /\ Answer(n, "Unchanged", bytes.body, bytes.body)
    /\ UNCHANGED <<latest, wire, parsed, held>>

\* ParsedPointer::parse succeeds, and the record goes on to be verified.  (A
\* second copy of one that waits for that changes nothing.)
Admit(n, bytes) ==
    /\ bytes \notin parsed[n]
    /\ Parses(bytes)
    /\ ~ Holds(n, bytes.body)
    /\ parsed' = [parsed EXCEPT ![n] = @ \cup {bytes}]
    /\ UNCHANGED <<latest, wire, held, replies>>

Consume(n, bytes) ==
    /\ bytes \in parsed[n]
    /\ parsed' = [parsed EXCEPT ![n] = @ \ {bytes}]
    /\ UNCHANGED <<latest, wire>>

\* Pointer::verify_parsed fails.
Reject(n, bytes) ==
    /\ Consume(n, bytes)
    /\ ~ Verifies(bytes)
    /\ UNCHANGED <<held, replies>>

\* The rule of release 3.1.0, which a network may run beside this one.
replaces_3_1_0(s, t) ==
    pointer_address(s) = pointer_address(t) /\ OutRanks(s, t)

Beats(n, s, t) ==
    IF n \in LegacyNode THEN replaces_3_1_0(s, t) ELSE replaces(s, t)

WinsUnlessLower(n, state) ==
    HeldAt(n, state) # NoPointer =>
        HeldAt(n, state).body.counter <= state.counter

Wins(n, state) ==
    HeldAt(n, state) # NoPointer => Beats(n, state, HeldAt(n, state).body)

Store(n, bytes) ==
    /\ Consume(n, bytes)
    /\ Verifies(bytes)
    /\ Wins(n, bytes.body)
    /\ held' = [held EXCEPT ![n][pointer_address(bytes.body)] = bytes]
    /\ Answer(n, "Success", bytes.body, bytes.body)

KeepHeld(n, bytes) ==
    /\ Consume(n, bytes)
    /\ Verifies(bytes)
    /\ ~ Wins(n, bytes.body)
    /\ Answer(n, IF Holds(n, bytes.body) THEN "Unchanged" ELSE "Stale",
              bytes.body, HeldAt(n, bytes.body).body)
    /\ UNCHANGED held

Verify(n, bytes) == Reject(n, bytes) \/ Store(n, bytes) \/ KeepHeld(n, bytes)

Receive(n, bytes) == Recognise(n, bytes) \/ Admit(n, bytes)

-----------------------------------------------------------------------------
Next ==
    \/ \E d \in Device :
           \/ Create(d) \/ Update(d) \/ Finalize(d) \/ TransferTo(d)
           \/ SignRaw(d)
           \/ \E b \in wire : Load(d, b)
    \/ \E b \in wire : Damage(b)
    \/ \E n \in Node :
           \/ \E b \in wire : Receive(n, b)
           \/ \E b \in parsed[n] : Verify(n, b)

Spec == Init /\ [][Next]_vars

\* Replication brings every genuine record to every node in the end, and a
\* node works through what it has parsed.
Unanswered(n, bytes) ==
    /\ FromBytes(bytes)
    /\ bytes \notin parsed[n]
    /\ \A r \in replies : ~ (r.node = n /\ r.submitted = bytes.body)

Fairness ==
    \A n \in Node :
        /\ WF_vars(\E b \in wire : Unanswered(n, b) /\ Receive(n, b))
        /\ WF_vars(\E b \in parsed[n] : Verify(n, b))

FairSpec == Spec /\ Fairness

-----------------------------------------------------------------------------
(* Properties *)

\* The states owners have signed, read off the signatures on the wire.
Authored == {b.sig.over : b \in {w \in wire : w.sig.signer = w.sig.over.owner}}

Holding(n, a) == IF held[n][a] = NoPointer THEN NoPointer ELSE held[n][a].body

\* Replies of nodes on the rule of this source.
CurrentReplies == {r \in replies : r.node \notin LegacyNode}

\* The state a node holds where it took the submission r answers.
HoldingNow(r) == Holding(r.node, pointer_address(r.submitted))

\* What a node has answered for at an address.
Answered(n, a) ==
    {r.submitted : r \in {q \in replies :
        q.node = n /\ pointer_address(q.submitted) = a}}

RivalFinals(S) ==
    \E s, t \in S :
        s # t /\ pointer_address(s) = pointer_address(t)
              /\ is_terminal(s) /\ is_terminal(t)

\* Every variable holds records of its shape.
TypeOK ==
    /\ latest \in [Device -> Bytes \cup {NoPointer}]
    /\ wire \subseteq Bytes
    /\ parsed \in [Node -> SUBSET Bytes]
    /\ held \in [Node -> [Name -> Bytes \cup {NoPointer}]]
    /\ replies \subseteq Reply

\* A node never holds, at any address, a state that the owner of that address
\* did not sign, whatever copies reach it and however parsing, verification
\* and merging interleave (ParsedPointer, Pointer::verify_parsed).
HeldAuthentic ==
    \A n \in Node, a \in Name : held[n][a] # NoPointer =>
        /\ Holding(n, a) \in Authored
        /\ pointer_address(Holding(n, a)) = a

\* What a PointerPutResponse says is held stays held or is replaced by the
\* merge rule: a later answer never takes a client back.
RepliesStayTrue ==
    \A r \in CurrentReplies :
        \/ HoldingNow(r) = r.holds
        \/ HoldingNow(r) # NoPointer /\ replaces(HoldingNow(r), r.holds)

\* A submission that was answered is settled for good at that node.  It is
\* held, or a state that replaces it is, or it was refused (Stale) by a final
\* state: re-submitting it can change nothing.
SubmissionsStaySettled ==
    \A r \in CurrentReplies :
        /\ HoldingNow(r) # NoPointer
        /\ \/ HoldingNow(r) = r.submitted
           \/ replaces(HoldingNow(r), r.submitted)
           \/ r.kind = "Stale" /\ is_terminal(HoldingNow(r))

\* A node that has once said it holds a final state holds that state for ever:
\* no later record, and no other final state, takes the address back
\* (PointerState::replaces, rule 0; Pointer::transfer_to).
FinalIsForever ==
    \A r \in CurrentReplies : is_terminal(r.holds) => HoldingNow(r) = r.holds

\* Two nodes that answered for the same states, in whatever order, hold the
\* same state, unless two different final states were among them.  Below the
\* final counter the rules of both releases agree, so this holds of a network
\* that runs both.
Convergent ==
    \A n, m \in Node, a \in Name :
        /\ Answered(n, a) = Answered(m, a)
        /\ ~ RivalFinals(Answered(n, a))
        => Holding(n, a) = Holding(m, a)

\* No state is stored twice by one node, however many valid encodings of it
\* its owner signs: one payment buys one write.
NeverStoredTwice ==
    [][\A n \in Node, a \in Name : held'[n][a] # held[n][a] =>
           \A r \in replies :
               r.node = n /\ r.kind = "Success" =>
                   r.submitted # held'[n][a].body]_vars

\* The state update, finalize or transfer_to signs, and the state a careful
\* device takes up, replaces the one the device had.
UpdatesReplace ==
    [][\A d \in Device \ (Careless \cup RawSigner) :
           latest[d] # NoPointer /\ latest'[d] # latest[d] =>
               replaces(latest'[d].body, latest[d].body)]_vars

CounterOf(state) == state.counter
TargetPair(state) == <<state.target.kind_tag, state.target.address>>

\* At nodes on the rule of this source, every address moves through states
\* its owner authored, forward only, and stops at a final one: the abstract
\* register.
Register == INSTANCE PointerRegister WITH
    Replica <- Node \ LegacyNode,
    Address <- Name,
    State <- [version : {POINTER_FORMAT_VERSION}, owner : Owner,
              counter : Counter, target : Target],
    AddressOf <- pointer_address,
    Rank <- CounterOf,
    TargetKey <- TargetPair,
    LastRank <- FinalCounter,
    Nothing <- NoPointer,
    authored <- Authored,
    register <- [n \in Node \ LegacyNode |-> [a \in Name |-> Holding(n, a)]]

ImplementsRegister == Register!Spec

\* One device per key, never going back and never choosing its own counters.
SoleWriter ==
    /\ \A d, e \in Device : KeyOf[d] = KeyOf[e] => d = e
    /\ Careless = {} /\ RawSigner = {}

\* A sole writer never forks its pointer: one state per counter, so at most
\* one final state (the refusal in Pointer::finalize is enough for it).
NoFork ==
    \A s, t \in Authored :
        s.owner = t.owner /\ s.counter = t.counter => s = t

\* Readers who are redirected from an address by a transfer are redirected to
\* the same pointer by every node, and for ever.
OneRedirect ==
    \A n, m \in Node, a \in Name :
        /\ held[n][a] # NoPointer /\ transferred_to(Holding(n, a)) # {}
        /\ held[m][a] # NoPointer /\ transferred_to(Holding(m, a)) # {}
        => transferred_to(Holding(n, a)) = transferred_to(Holding(m, a))

\* In the end every address reads the same at every node, unless its owner
\* signed two different final states.
Heals ==
    \A a \in Name :
        <>[](\/ RivalFinals({s \in Authored : pointer_address(s) = a})
             \/ \A n, m \in Node : Holding(n, a) = Holding(m, a))

=============================================================================
