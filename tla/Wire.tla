-------------------------------- MODULE Wire --------------------------------
(***************************************************************************)
(* Chunk messages between releases (src/src/chunk.rs).  Postcard writes the *)
(* position of a variant in its enum and nothing about its type, so what a  *)
(* release reads depends on its own enums.  Requests and errors were added  *)
(* three times; clients and nodes change release at any time, forward or    *)
(* back.  A release that does not know a variant drops the message without  *)
(* a reply, and get-or-closer requests go only to nodes whose user agent,   *)
(* when the client last heard it, announced them.                           *)
(*                                                                         *)
(* A chunk is the size of its content.  What nodes do with a request, and   *)
(* the transport, are other crates'; they are modelled after the comments   *)
(* on the message types.                                                    *)
(***************************************************************************)
EXTENDS Naturals, Sequences

CONSTANTS
    Client, Node,
    Release,          \* those in use, of AllReleases
    RequestId,        \* of one client: it never uses one twice
    Asked,            \* the request variants that clients send
    Refused,          \* the errors that nodes answer with
    ContentSize,
    ProofSize,        \* of a serialized payment proof, 0 without
    Envelope,         \* what else there is in a message
    MAX_CHUNK_SIZE,
    MAX_WIRE_MESSAGE_SIZE

ASSUME SizeAssumption ==
    /\ ContentSize \subseteq Nat /\ ProofSize \subseteq Nat
    /\ Envelope \in Nat
    /\ MAX_CHUNK_SIZE \in Nat /\ MAX_WIRE_MESSAGE_SIZE \in Nat
    /\ MAX_CHUNK_SIZE + Envelope <= MAX_WIRE_MESSAGE_SIZE

-----------------------------------------------------------------------------
(* Releases and their enums *)

\* The first, and those that added settlement versions, pointers and
\* get-or-closer.
AllReleases == 1..4

ASSUME ReleaseAssumption == Release \subseteq AllReleases

Since(release, b, variants) == IF b >= release THEN variants ELSE <<>>

FirstVariants ==
    <<"PutRequest", "PutResponse", "GetRequest", "GetResponse", "QuoteRequest",
      "QuoteResponse", "MerkleCandidateQuoteRequest", "MerkleCandidateQuoteResponse">>

FirstErrors ==
    <<"SerializationFailed", "DeserializationFailed", "MessageTooLarge",
      "ChunkTooLarge", "AddressMismatch", "StorageFailed", "PaymentFailed",
      "QuoteFailed", "Internal">>

VersionErrors == {"ClientUpdateRequired", "StorerUpdateRequired"}

\* A slip in ChunkMessageBody: what is new is put where it belongs, by topic.
ChunkMessageBodyByTopic(b) ==
    SubSeq(FirstVariants, 1, 4)
    \o Since(4, b, <<"GetOrCloserRequest", "GetOrCloserResponse">>)
    \o SubSeq(FirstVariants, 5, 8)
    \o Since(2, b, <<"QuoteRequestV2", "MerkleCandidateQuoteRequestV2">>)
    \o Since(3, b, <<"PointerPutRequest", "PointerPutResponse",
                     "PointerGetRequest", "PointerGetResponse">>)

ChunkMessageBody(b) ==
    FirstVariants
    \o Since(2, b, <<"QuoteRequestV2", "MerkleCandidateQuoteRequestV2">>)
    \o Since(3, b, <<"PointerPutRequest", "PointerPutResponse",
                     "PointerGetRequest", "PointerGetResponse">>)
    \o Since(4, b, <<"GetOrCloserRequest", "GetOrCloserResponse">>)

ProtocolError(b) ==
    FirstErrors \o Since(2, b, <<"ClientUpdateRequired", "StorerUpdateRequired">>)

Members(enum) == {enum[i] : i \in DOMAIN enum}

ResponseTo ==
    [PutRequest |-> "PutResponse", GetRequest |-> "GetResponse",
     QuoteRequest |-> "QuoteResponse", QuoteRequestV2 |-> "QuoteResponse",
     MerkleCandidateQuoteRequest |-> "MerkleCandidateQuoteResponse",
     MerkleCandidateQuoteRequestV2 |-> "MerkleCandidateQuoteResponse",
     PointerPutRequest |-> "PointerPutResponse",
     PointerGetRequest |-> "PointerGetResponse",
     GetOrCloserRequest |-> "GetOrCloserResponse"]

ASSUME AskedAssumption == Asked \subseteq DOMAIN ResponseTo

Versioned == {"QuoteRequestV2", "MerkleCandidateQuoteRequestV2"}

\* A slip in Refusals: clients that declared no version are told to update.
RefusalsToAll(b, variant) == Refused \cap Members(ProtocolError(b))

\* The errors a node may answer with: the settlement refusals have to be
\* earned by a request that declares a version.
Refusals(b, variant) ==
    (Refused \cap Members(ProtocolError(b)))
    \ (IF variant \in Versioned THEN {} ELSE VersionErrors)

GET_OR_CLOSER_AGENT_TOKEN == "get_or_closer_1"

UserAgent(b) == {"ant_node"} \cup IF b >= 4 THEN {GET_OR_CLOSER_AGENT_TOKEN} ELSE {}

advertises_get_or_closer(user_agent) == GET_OR_CLOSER_AGENT_TOKEN \in user_agent

-----------------------------------------------------------------------------
(* Messages and bytes *)

\* A ChunkMessage, with the error in it, if there is one.
Message(id, variant, error, content, proof) ==
    [id |-> id, variant |-> variant, error |-> error, content |-> content,
     proof |-> proof]

Size(m) == Envelope + m.content + m.proof

PositionIn(enum, member) == CHOOSE i \in DOMAIN enum : enum[i] = member

\* ChunkMessage::encode, by release b, of any size.
encode(b, m) ==
    [m EXCEPT !.variant = PositionIn(ChunkMessageBody(b), @),
              !.error = IF @ = "None" THEN 0 ELSE PositionIn(ProtocolError(b), @)]

\* A slip in decode: the greatest message is already too large.
decode_strictly(b, data) ==
    IF \/ Size(data) >= MAX_WIRE_MESSAGE_SIZE
       \/ data.variant \notin DOMAIN ChunkMessageBody(b)
       \/ data.error \notin {0} \cup DOMAIN ProtocolError(b)
    THEN {}
    ELSE {[data EXCEPT !.variant = ChunkMessageBody(b)[@],
                       !.error = IF @ = 0 THEN "None" ELSE ProtocolError(b)[@]]}

\* ChunkMessage::decode, by release b: nothing if the data are too large or a
\* variant in them is unknown.
decode(b, data) ==
    IF \/ Size(data) > MAX_WIRE_MESSAGE_SIZE
       \/ data.variant \notin DOMAIN ChunkMessageBody(b)
       \/ data.error \notin {0} \cup DOMAIN ProtocolError(b)
    THEN {}
    ELSE {[data EXCEPT !.variant = ChunkMessageBody(b)[@],
                       !.error = IF @ = 0 THEN "None" ELSE ProtocolError(b)[@]]}

-----------------------------------------------------------------------------
VARIABLES
    clientBuild, nodeBuild,
    heard,            \* client -> node -> the release it heard from, or 0
    pending,          \* client -> requests it waits on
    held,             \* node -> the chunks it stores
    requests,         \* on their way: the request and its bytes
    replies,          \* on their way: what is replied to, the reply, its bytes
    asked,            \* requests ever sent
    said, told,       \* what nodes replied, what clients took for a reply
    dropped           \* requests a node could not read, and its release

vars == <<clientBuild, nodeBuild, heard, pending, held, requests, replies,
          asked, said, told, dropped>>
builds == <<clientBuild, nodeBuild>>
packets == <<requests, replies>>
history == <<asked, said, told, dropped>>

Contents(variant) == IF variant = "PutRequest" THEN ContentSize ELSE {0}

Proofs(variant) ==
    IF variant \in {"PutRequest", "PointerPutRequest"} THEN ProofSize ELSE {0}

\* Everything clients may send, with who sends it to whom, and what the client
\* then knew of the node.
Request ==
    [client : Client, node : Node, heard : {0} \cup Release,
     message : UNION {[id : RequestId, variant : {v}, error : {"None"},
                       content : Contents(v), proof : Proofs(v)] : v \in Asked}]

Init ==
    /\ clientBuild \in [Client -> Release] /\ nodeBuild \in [Node -> Release]
    /\ heard = [c \in Client |-> [n \in Node |-> 0]]
    /\ pending = [c \in Client |-> {}] /\ held = [n \in Node |-> {}]
    /\ requests = {} /\ replies = {}
    /\ asked = {} /\ said = {} /\ told = {} /\ dropped = {}

-----------------------------------------------------------------------------
(* Clients *)

\* A client connects to a node and hears its user agent.
Meet(c, n) ==
    /\ heard' = [heard EXCEPT ![c][n] = nodeBuild[n]]
    /\ UNCHANGED <<builds, pending, held, packets, history>>

\* A client asks with what its release knows, under an id of its own.
Ask(c) ==
    /\ \E r \in Request :
           /\ r.client = c /\ r.heard = heard[c][r.node]
           /\ \A q \in asked : q.client = c => q.message.id # r.message.id
           /\ r.message.variant \in Members(ChunkMessageBody(clientBuild[c]))
           /\ r.message.variant = "GetOrCloserRequest" =>
                  advertises_get_or_closer(UserAgent(r.heard))
           /\ asked' = asked \cup {r}
           /\ pending' = [pending EXCEPT ![c] = @ \cup {r}]
           /\ requests' = requests \cup
                  {[re |-> r, data |-> encode(clientBuild[c], r.message)]}
    /\ UNCHANGED <<builds, heard, held, replies, said, told, dropped>>

\* A slip in Takes: by the variant alone.
TakesAnyId(c, p) ==
    UNION {{[request |-> r, reply |-> [variant |-> m.variant, error |-> m.error]] :
               m \in {m \in decode(clientBuild[c], p.data) :
                         /\ r.node = p.re.node
                         /\ m.variant = ResponseTo[r.message.variant]}} :
           r \in pending[c]}

\* What a client takes for the answer to r: from its node, under its id, of the
\* variant its handler waits for.
Takes(c, p) ==
    UNION {{[request |-> r, reply |-> [variant |-> m.variant, error |-> m.error]] :
               m \in {m \in decode(clientBuild[c], p.data) :
                         /\ r.node = p.re.node /\ r.message.id = m.id
                         /\ m.variant = ResponseTo[r.message.variant]}} :
           r \in pending[c]}

\* A reply arrives, of use or not.
Hear(c) ==
    /\ \E p \in {p \in replies : p.re.client = c} :
           /\ replies' = replies \ {p}
           /\ told' = told \cup Takes(c, p)
           /\ pending' = [pending EXCEPT ![c] = @ \ {t.request : t \in Takes(c, p)}]
    /\ UNCHANGED <<builds, heard, held, requests, asked, said, dropped>>

\* The deadline of a call passes.
GiveUp(c) ==
    /\ \E r \in pending[c] : pending' = [pending EXCEPT ![c] = @ \ {r}]
    /\ UNCHANGED <<builds, heard, held, packets, history>>

\* A restart on another release, later or earlier: calls and peers are forgotten.
RestartClient(c) ==
    /\ \E b \in Release : clientBuild' = [clientBuild EXCEPT ![c] = b]
    /\ heard' = [heard EXCEPT ![c] = [n \in Node |-> 0]]
    /\ pending' = [pending EXCEPT ![c] = {}]
    /\ UNCHANGED <<nodeBuild, held, packets, history>>

-----------------------------------------------------------------------------
(* Nodes *)

\* The chunks are kept.
RestartNode(n) ==
    /\ \E b \in Release : nodeBuild' = [nodeBuild EXCEPT ![n] = b]
    /\ UNCHANGED <<clientBuild, heard, pending, held, packets, history>>

Arrives(n, p) == p \in requests /\ p.re.node = n /\ requests' = requests \ {p}

Drop(n) ==
    /\ \E p \in requests :
           /\ Arrives(n, p) /\ decode(nodeBuild[n], p.data) = {}
           /\ dropped' = dropped \cup {[request |-> p.re, build |-> nodeBuild[n]]}
    /\ UNCHANGED <<builds, heard, pending, held, replies, asked, said, told>>

\* The node replies to p, which it reads as m.
Say(n, p, m, error, content) ==
    LET reply == Message(m.id, ResponseTo[m.variant], error, content, 0)
    IN  /\ replies' = replies \cup
               {[re |-> p.re, of |-> reply, data |-> encode(nodeBuild[n], reply)]}
        /\ said' = said \cup
               {[request |-> p.re, reply |-> [variant |-> reply.variant, error |-> error]]}

Refuse(n) ==
    /\ \E p \in requests, m \in UNION {decode(nodeBuild[n], q.data) : q \in requests} :
           /\ Arrives(n, p) /\ m \in decode(nodeBuild[n], p.data)
           /\ m.variant \in DOMAIN ResponseTo
           /\ \E e \in Refusals(nodeBuild[n], m.variant) : Say(n, p, m, e, 0)
    /\ UNCHANGED <<builds, heard, pending, held, asked, told, dropped>>

\* A chunk that is not too large is stored, unless it has to be paid for; a
\* chunk that is held is sent, another is not found or to be had closer by.
Serve(n) ==
    /\ \E p \in requests, m \in UNION {decode(nodeBuild[n], q.data) : q \in requests} :
           /\ Arrives(n, p) /\ m \in decode(nodeBuild[n], p.data)
           /\ \/ /\ m.variant = "PutRequest" /\ m.content <= MAX_CHUNK_SIZE
                 /\ held' \in {held, [held EXCEPT ![n] = @ \cup {m.content}]}
                 /\ Say(n, p, m, "None", 0)
              \/ /\ m.variant \in {"GetRequest", "GetOrCloserRequest"}
                 /\ \E content \in {0} \cup held[n] : Say(n, p, m, "None", content)
                 /\ UNCHANGED held
              \/ /\ m.variant \in DOMAIN ResponseTo
                 /\ m.variant \notin {"PutRequest", "GetRequest", "GetOrCloserRequest"}
                 /\ Say(n, p, m, "None", 0)
                 /\ UNCHANGED held
    /\ UNCHANGED <<builds, heard, pending, asked, told, dropped>>

\* The transport loses what it was given.
Lose ==
    /\ \/ \E p \in requests : requests' = requests \ {p} /\ UNCHANGED replies
       \/ \E p \in replies : replies' = replies \ {p} /\ UNCHANGED requests
    /\ UNCHANGED <<builds, heard, pending, held, history>>

Next ==
    \/ \E c \in Client : Ask(c) \/ Hear(c) \/ GiveUp(c) \/ RestartClient(c)
    \/ \E c \in Client, n \in Node : Meet(c, n)
    \/ \E n \in Node : RestartNode(n) \/ Drop(n) \/ Refuse(n) \/ Serve(n)
    \/ Lose

Spec == Init /\ [][Next]_vars

-----------------------------------------------------------------------------
(* Properties *)

Saying == [request : Request,
           reply : [variant : Members(ChunkMessageBody(4)),
                    error : {"None"} \cup Members(ProtocolError(4))]]

\* Every variable keeps its type.
TypeOK ==
    /\ clientBuild \in [Client -> Release] /\ nodeBuild \in [Node -> Release]
    /\ heard \in [Client -> [Node -> {0} \cup Release]]
    /\ pending \in [Client -> SUBSET asked] /\ asked \subseteq Request
    /\ held \in [Node -> SUBSET ContentSize]
    /\ \A p \in requests \cup replies : p.re \in asked
    /\ said \subseteq Saying /\ told \subseteq Saying
    /\ \A d \in dropped : d.request \in asked /\ d.build \in Release

\* Whichever release wrote a message and whichever may read it, what is read is
\* what was written, or nothing ("keeps its wire value ... rather than
\* misreading it", ChunkMessageBody).
NothingIsMisread ==
    \A b \in Release :
        /\ \A p \in requests : decode(b, p.data) \subseteq {p.re.message}
        /\ \A p \in replies : decode(b, p.data) \subseteq {p.of}

\* A client can read every reply to a request it still waits on: what a newer
\* node says to an older client is in words that client knows ("a peer old
\* enough not to know this variant cannot be sent it", ClientUpdateRequired),
\* and what a node could take in a PUT it can hand out whole.
RepliesAreUnderstood ==
    \A p \in replies : p.re \in pending[p.re.client] =>
        decode(clientBuild[p.re.client], p.data) = {p.of}

\* No request of legal size is dropped by a node that knows its variant, and a
\* get-or-closer request only by a node that has gone back to an earlier
\* release since the client heard it (GET_OR_CLOSER_AGENT_TOKEN).
DroppedForAReason ==
    \A d \in dropped :
        LET m == d.request.message
        IN  \/ m.content > MAX_CHUNK_SIZE
            \/ m.proof > MAX_WIRE_MESSAGE_SIZE - MAX_CHUNK_SIZE - Envelope
            \/ /\ m.variant \notin Members(ChunkMessageBody(d.build))
               /\ m.variant = "GetOrCloserRequest" => d.build < d.request.heard

\* The abstract specification: requests, and replies to them.
Types == INSTANCE CallTypes WITH
    Answers <- [r \in Request |->
                   {[variant |-> ResponseTo[r.message.variant], error |-> e] :
                       e \in {"None"} \cup Refusals(4, r.message.variant)}]

\* Through all releases, a client is told what the node said to its request.
KeepsTypes == Types!Spec

=============================================================================
