------------------------ MODULE SettlementHandshake ------------------------
(***************************************************************************)
(* Settlement versions (src/src/chunk.rs) through a rolling upgrade.        *)
(* A release of the crate carries the settlement rule its clients pay       *)
(* under and the oldest rule its storers still quote for.  A client         *)
(* declares its rule in a V2 quote request, and a storer that cannot        *)
(* promise to accept the payment refuses to quote, because a payment cannot *)
(* be taken back.  Clients and storers move to later releases at any time,  *)
(* also between a quote and the PUT it was for.                             *)
(*                                                                         *)
(* One upload per client and release; the storers that quote need not be    *)
(* those that are sent the chunk (they are not, for a merkle batch).  The   *)
(* crate has the messages and settlement_compatibility; what clients and    *)
(* storers do with them is in other crates and taken from its comments.     *)
(***************************************************************************)
EXTENDS Naturals, FiniteSets

CONSTANTS
    Client,
    Storer,
    LastRelease,      \* releases are numbered from 0
    FirstVersioned,   \* the first release that has the V2 requests
    MinVersion,       \* MIN_SUPPORTED_SETTLEMENT_VERSION of each release
    CurrentVersion,   \* CURRENT_SETTLEMENT_VERSION of each release
    LegacyQuoter,     \* storers that still quote unversioned clients
    QuotesNeeded,     \* before a client pays
    Staged            \* MIN is raised only after clients have adopted CURRENT

Release == 0..LastRelease

\* Before FirstVersioned the rules are those a build follows unsaid.
ASSUME ReleaseAssumption ==
    /\ LastRelease \in Nat /\ FirstVersioned \in Nat
    /\ MinVersion \in [Release -> Nat] /\ CurrentVersion \in [Release -> Nat]
    /\ \A r \in Release : MinVersion[r] <= CurrentVersion[r]

\* "Raise CURRENT first": versions are never taken back.
ASSUME VersionsGrow ==
    \A r, s \in Release : r <= s =>
        /\ MinVersion[r] <= MinVersion[s]
        /\ CurrentVersion[r] <= CurrentVersion[s]

ASSUME StorerAssumption == LegacyQuoter \subseteq Storer
ASSUME RolloutAssumption == Staged \in BOOLEAN /\ QuotesNeeded \in Nat

VARIABLES
    clientBuild,      \* client -> the release it runs
    storerBuild,      \* storer -> the release it runs
    phase,            \* client -> how its upload stands
    requests,         \* quote requests ever sent
    replies,          \* answers ever given to them
    quotes,           \* client -> the quotes of its upload
    puts              \* how storers answered PUTs

vars == <<clientBuild, storerBuild, phase, requests, replies, quotes, puts>>

\* A quote request, with the release of the client that sent it.
Request == [client : Client, storer : Storer, release : Release]

SettlementCompatibility == {"Compatible", "ClientTooOld", "NodeTooOld"}

\* A reply, with the release its storer gave it on.
Reply == [request : Request, verdict : SettlementCompatibility, build : Release]

Put == [client : Client, release : Release, storer : Storer, build : Release,
        accepted : BOOLEAN]

\* Every client pays by a rule that release r still supports.
Adopted(r) == \A c \in Client : MinVersion[r] <= CurrentVersion[clientBuild[c]]

Init ==
    /\ clientBuild \in [Client -> Release]
    /\ storerBuild \in [Storer -> Release]
    /\ Staged => \A s \in Storer : Adopted(storerBuild[s])
    /\ phase = [c \in Client |-> "quoting"]
    /\ requests = {} /\ replies = {} /\ puts = {}
    /\ quotes = [c \in Client |-> {}]

-----------------------------------------------------------------------------
(* The rule *)

\* The earlier revision its comment tells of: bounded on one side only.
compatible_if_not_old(r, version) ==
    IF version < MinVersion[r] THEN "ClientTooOld" ELSE "Compatible"

\* What the comment says must not be: the two refusals collapsed.
compatible_or_too_old(r, version) ==
    IF version \in MinVersion[r]..CurrentVersion[r]
    THEN "Compatible" ELSE "ClientTooOld"

\* settlement_compatibility of a build of release r
settlement_compatibility(r, version) ==
    IF version < MinVersion[r] THEN "ClientTooOld"
    ELSE IF version > CurrentVersion[r] THEN "NodeTooOld"
    ELSE "Compatible"

\* Releases that have QuoteRequestV2, to send and to decode.
Versioned(r) == r >= FirstVersioned

\* A payment by a rule the storer's build knows and supports is accepted, by
\* one it has superseded is not; by one it does not know, it may be.
Verdicts(r, version) ==
    IF version < MinVersion[r] THEN {FALSE}
    ELSE IF version > CurrentVersion[r] THEN BOOLEAN
    ELSE {TRUE}

-----------------------------------------------------------------------------
(* Clients *)

Ask(c, s) ==
    /\ phase[c] = "quoting"
    /\ requests' = requests \cup
           {[client |-> c, storer |-> s, release |-> clientBuild[c]]}
    /\ UNCHANGED <<clientBuild, storerBuild, phase, replies, quotes, puts>>

\* A reply to the running upload.  ClientTooOld is terminal; after NodeTooOld
\* the client uses another storer.
Hear(reply) ==
    LET c == reply.request.client
    IN  /\ phase[c] = "quoting"
        /\ reply.request.release = clientBuild[c]
        /\ \/ /\ reply.verdict = "Compatible"
              /\ quotes' = [quotes EXCEPT ![c] = @ \cup {reply}]
              /\ UNCHANGED phase
           \/ /\ reply.verdict = "ClientTooOld"
              /\ phase' = [phase EXCEPT ![c] = "told_to_update"]
              /\ UNCHANGED quotes
        /\ UNCHANGED <<clientBuild, storerBuild, requests, replies, puts>>

Pay(c) ==
    /\ phase[c] = "quoting"
    /\ quotes[c] # {} /\ Cardinality(quotes[c]) >= QuotesNeeded
    /\ phase' = [phase EXCEPT ![c] = "paid"]
    /\ UNCHANGED <<clientBuild, storerBuild, requests, replies, quotes, puts>>

PutChunk(c, s) ==
    /\ phase[c] = "paid"
    /\ \E accepted \in Verdicts(storerBuild[s], CurrentVersion[clientBuild[c]]) :
           puts' = puts \cup
               {[client |-> c, release |-> clientBuild[c], storer |-> s,
                 build |-> storerBuild[s], accepted |-> accepted]}
    /\ UNCHANGED <<clientBuild, storerBuild, phase, requests, replies, quotes>>

-----------------------------------------------------------------------------
(* Storers *)

\* A build without QuoteRequestV2 drops it.  An unversioned request is quoted
\* by builds that know no other, and by policy.
Answer(s, request) ==
    /\ request.storer = s
    /\ \A r \in replies : r.request # request
    /\ LET version == CurrentVersion[request.release]
           verdict == IF Versioned(request.release)
                      THEN settlement_compatibility(storerBuild[s], version)
                      ELSE "Compatible"
       IN  replies' = replies \cup
               {[request |-> request, verdict |-> verdict,
                 build |-> storerBuild[s]]}
    /\ IF Versioned(request.release) THEN Versioned(storerBuild[s])
       ELSE ~ Versioned(storerBuild[s]) \/ s \in LegacyQuoter
    /\ UNCHANGED <<clientBuild, storerBuild, phase, requests, quotes, puts>>

-----------------------------------------------------------------------------
(* Upgrades *)

Later(r) == {r + 1} \cap Release

\* A client is upgraded between uploads.
UpgradeClient(c) ==
    /\ phase[c] # "paid"
    /\ \E r \in Later(clientBuild[c]) :
           clientBuild' = [clientBuild EXCEPT ![c] = r]
    /\ phase' = [phase EXCEPT ![c] = "quoting"]
    /\ quotes' = [quotes EXCEPT ![c] = {}]
    /\ UNCHANGED <<storerBuild, requests, replies, puts>>

UpgradeStorer(s) ==
    /\ \E r \in Later(storerBuild[s]) :
           /\ Staged => Adopted(r)
           /\ storerBuild' = [storerBuild EXCEPT ![s] = r]
    /\ UNCHANGED <<clientBuild, phase, requests, replies, quotes, puts>>

-----------------------------------------------------------------------------
Next ==
    \/ \E c \in Client :
           \/ Pay(c) \/ UpgradeClient(c)
           \/ \E s \in Storer : Ask(c, s) \/ PutChunk(c, s)
    \/ \E reply \in replies : Hear(reply)
    \/ \E s \in Storer :
           \/ UpgradeStorer(s)
           \/ \E request \in requests : Answer(s, request)

Spec == Init /\ [][Next]_vars

-----------------------------------------------------------------------------
(* Properties *)

\* Every variable keeps its type.
TypeOK ==
    /\ clientBuild \in [Client -> Release]
    /\ storerBuild \in [Storer -> Release]
    /\ phase \in [Client -> {"quoting", "told_to_update", "paid"}]
    /\ requests \subseteq Request /\ replies \subseteq Reply
    /\ quotes \in [Client -> SUBSET Reply]
    /\ puts \subseteq Put

\* A quote its storer gave for the upload that PUT p is part of, on the release
\* it answered p on or an earlier one.
QuotedFor(reply, p) ==
    /\ reply.verdict = "Compatible" /\ reply.build <= p.build
    /\ reply.request = [client |-> p.client, storer |-> p.storer,
                        release |-> p.release]

\* A storer that quoted a client which declared its version refuses the
\* payment only if it has moved, since, to a release that dropped the client's
\* rule.  A release that only raises CURRENT strands no payment, and neither
\* does a client newer than the storer (settlement_compatibility).
QuotesAreKept ==
    \A p \in puts, reply \in replies :
        /\ ~ p.accepted /\ Versioned(p.release) /\ QuotedFor(reply, p)
        => reply.build < p.build /\ CurrentVersion[p.release] < MinVersion[p.build]

\* Only a client that can be updated, to a rule its storer quotes for, is told
\* so: never one on the last release, however far behind storers are
\* (SettlementCompatibility, the two refusals kept apart).
OnlyTheOutdatedAreTold ==
    \A c \in Client : phase[c] = "told_to_update" =>
        \E s \in Storer, r \in Release :
            /\ clientBuild[c] < r
            /\ CurrentVersion[clientBuild[c]] < MinVersion[storerBuild[s]]
            /\ MinVersion[storerBuild[s]] <= CurrentVersion[r]
            /\ CurrentVersion[r] <= CurrentVersion[storerBuild[s]]

\* When MIN is raised only after clients have adopted CURRENT, no payment that
\* was quoted for is ever refused by the storer that quoted, and no client is
\* cut off (MIN_SUPPORTED_SETTLEMENT_VERSION).
NobodyIsStranded ==
    /\ \A p \in puts, reply \in replies :
           Versioned(p.release) /\ QuotedFor(reply, p) => p.accepted
    /\ \A c \in Client : phase[c] # "told_to_update"

=============================================================================
