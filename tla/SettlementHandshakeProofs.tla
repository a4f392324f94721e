--------------------- MODULE SettlementHandshakeProofs ---------------------
(***************************************************************************)
(* SettlementHandshake for any releases, clients and storers.  Releases     *)
(* only move forward, so a verdict or a refusal on record was right for a   *)
(* release its storer has reached since.                                    *)
(***************************************************************************)
EXTENDS SettlementHandshake, TLAPS

\* Every reply is the rule's verdict on a release its storer has reached.
RepliesHonest ==
    \A r \in replies :
        /\ r.build <= storerBuild[r.request.storer]
        /\ Versioned(r.request.release) =>
               r.verdict = settlement_compatibility(
                               r.build, CurrentVersion[r.request.release])
        /\ ~ Versioned(r.request.release) => r.verdict = "Compatible"

PutsHonest ==
    \A p \in puts : p.accepted \in Verdicts(p.build, CurrentVersion[p.release])

\* Some storer has dropped the rule of a client that was told to update.
ToldHonest ==
    \A c \in Client : phase[c] = "told_to_update" =>
        \E s \in Storer : CurrentVersion[clientBuild[c]] < MinVersion[storerBuild[s]]

IInv == TypeOK /\ RepliesHonest /\ PutsHonest /\ ToldHonest

LEMMA Versions ==
    ASSUME NEW r \in Release
    PROVE  /\ r \in Nat
           /\ MinVersion[r] \in Nat /\ CurrentVersion[r] \in Nat
           /\ MinVersion[r] <= CurrentVersion[r]
BY ReleaseAssumption DEF Release

LEMMA InitIInv == Init => IInv
BY DEF Init, IInv, TypeOK, RepliesHonest, PutsHonest, ToldHonest

LEMMA StepAsk ==
    ASSUME IInv, NEW c \in Client, NEW s \in Storer, Ask(c, s)
    PROVE  IInv'
<1> USE DEF IInv, Ask
<1>1. TypeOK'
    BY DEF TypeOK, Request
<1>2. RepliesHonest' /\ PutsHonest' /\ ToldHonest'
    BY DEF RepliesHonest, PutsHonest, ToldHonest
<1> QED  BY <1>1, <1>2

LEMMA StepHear ==
    ASSUME IInv, NEW reply \in replies, Hear(reply)
    PROVE  IInv'
<1> USE DEF IInv
<1>1. PICK c \in Client : c = reply.request.client
    BY DEF TypeOK, Reply, Request
<1>2. UNCHANGED <<clientBuild, storerBuild, requests, replies, puts>>
    BY DEF Hear
<1>3. RepliesHonest' /\ PutsHonest'
    BY <1>2 DEF RepliesHonest, PutsHonest
<1>4. CASE /\ reply.verdict = "Compatible"
           /\ quotes' = [quotes EXCEPT ![c] = @ \cup {reply}]
           /\ UNCHANGED phase
  <2>1. TypeOK'
      BY <1>2, <1>4 DEF TypeOK
  <2>2. ToldHonest'
      BY <1>2, <1>4 DEF ToldHonest
  <2> QED  BY <1>3, <2>1, <2>2
<1>5. CASE /\ reply.verdict = "ClientTooOld"
           /\ phase' = [phase EXCEPT ![c] = "told_to_update"]
           /\ UNCHANGED quotes
  <2>1. TypeOK'
      BY <1>2, <1>5 DEF TypeOK
  <2>2. PICK s \in Storer : s = reply.request.storer
      BY DEF TypeOK, Reply, Request
  <2>3. /\ reply.build \in Release /\ storerBuild[s] \in Release
        /\ reply.build <= storerBuild[s] /\ clientBuild[c] \in Release
      BY <2>2 DEF TypeOK, RepliesHonest, Reply
  <2>4. CurrentVersion[clientBuild[c]] < MinVersion[reply.build]
    <3>1. reply.request.release = clientBuild[c]
        BY <1>1 DEF Hear
    <3>2. settlement_compatibility(reply.build, CurrentVersion[clientBuild[c]])
          = "ClientTooOld"
        BY <1>5, <3>1 DEF RepliesHonest
    <3> QED  BY <2>3, <3>2, Versions DEF settlement_compatibility
  <2>5. CurrentVersion[clientBuild[c]] < MinVersion[storerBuild[s]]
      BY <2>3, <2>4, Versions, VersionsGrow
  <2>6. ToldHonest'
      BY <1>2, <1>5, <2>5 DEF ToldHonest, TypeOK
  <2> QED  BY <1>3, <2>1, <2>6
<1> QED  BY <1>1, <1>4, <1>5 DEF Hear

LEMMA StepPay ==
    ASSUME IInv, NEW c \in Client, Pay(c)
    PROVE  IInv'
<1> USE DEF IInv, Pay
<1>1. TypeOK'
    BY DEF TypeOK
<1>2. RepliesHonest' /\ PutsHonest'
    BY DEF RepliesHonest, PutsHonest
<1>3. ToldHonest'
    BY DEF ToldHonest, TypeOK
<1> QED  BY <1>1, <1>2, <1>3

LEMMA StepPut ==
    ASSUME IInv, NEW c \in Client, NEW s \in Storer, PutChunk(c, s)
    PROVE  IInv'
<1> USE DEF IInv
<1>1. PICK accepted \in Verdicts(storerBuild[s], CurrentVersion[clientBuild[c]]) :
          puts' = puts \cup
              {[client |-> c, release |-> clientBuild[c], storer |-> s,
                build |-> storerBuild[s], accepted |-> accepted]}
    BY DEF PutChunk
<1>2. UNCHANGED <<clientBuild, storerBuild, phase, requests, replies, quotes>>
    BY DEF PutChunk
<1>3. accepted \in BOOLEAN
    BY DEF Verdicts
<1>4. TypeOK'
    BY <1>1, <1>2, <1>3 DEF TypeOK, Put
<1>5. RepliesHonest' /\ ToldHonest'
    BY <1>2 DEF RepliesHonest, ToldHonest
<1>6. PutsHonest'
    BY <1>1 DEF PutsHonest
<1> QED  BY <1>4, <1>5, <1>6

LEMMA StepAnswer ==
    ASSUME IInv, NEW s \in Storer, NEW request \in requests, Answer(s, request)
    PROVE  IInv'
<1> USE DEF IInv
<1>1. PICK verdict :
          /\ verdict = IF Versioned(request.release)
                       THEN settlement_compatibility(
                                storerBuild[s], CurrentVersion[request.release])
                       ELSE "Compatible"
          /\ replies' = replies \cup {[request |-> request, verdict |-> verdict,
                                       build |-> storerBuild[s]]}
    BY DEF Answer
<1>2. UNCHANGED <<clientBuild, storerBuild, phase, requests, quotes, puts>>
    BY DEF Answer
<1>3. request \in Request /\ request.storer = s /\ storerBuild[s] \in Release
    BY DEF TypeOK, Answer
<1>4. verdict \in SettlementCompatibility
    BY <1>1 DEF settlement_compatibility, SettlementCompatibility
<1>5. TypeOK'
    BY <1>1, <1>2, <1>3, <1>4 DEF TypeOK, Reply
<1>6. PutsHonest' /\ ToldHonest'
    BY <1>2 DEF PutsHonest, ToldHonest
<1>7. storerBuild[s] <= storerBuild[s]
    BY <1>3, Versions
<1>8. RepliesHonest'
    BY <1>1, <1>2, <1>3, <1>7 DEF RepliesHonest
<1> QED  BY <1>5, <1>6, <1>8

LEMMA StepUpgradeClient ==
    ASSUME IInv, NEW c \in Client, UpgradeClient(c)
    PROVE  IInv'
<1> USE DEF IInv
<1>1. PICK r \in Release : clientBuild' = [clientBuild EXCEPT ![c] = r]
    BY DEF UpgradeClient, Later
<1>2. /\ phase' = [phase EXCEPT ![c] = "quoting"]
      /\ quotes' = [quotes EXCEPT ![c] = {}]
      /\ UNCHANGED <<storerBuild, requests, replies, puts>>
    BY DEF UpgradeClient
<1>3. TypeOK'
    BY <1>1, <1>2 DEF TypeOK
<1>4. RepliesHonest' /\ PutsHonest'
    BY <1>2 DEF RepliesHonest, PutsHonest
<1>5. ToldHonest'
    BY <1>1, <1>2 DEF ToldHonest, TypeOK
<1> QED  BY <1>3, <1>4, <1>5

LEMMA StepUpgradeStorer ==
    ASSUME IInv, NEW s \in Storer, UpgradeStorer(s)
    PROVE  IInv'
<1> USE DEF IInv
<1>1. PICK r \in Later(storerBuild[s]) :
          storerBuild' = [storerBuild EXCEPT ![s] = r]
    BY DEF UpgradeStorer
<1>2. UNCHANGED <<clientBuild, phase, requests, replies, quotes, puts>>
    BY DEF UpgradeStorer
<1>3. r \in Release /\ storerBuild[s] \in Release /\ storerBuild[s] <= r
    BY <1>1, Versions DEF Later, TypeOK
<1>4. \A u \in Storer : /\ storerBuild[u] \in Release /\ storerBuild'[u] \in Release
                        /\ storerBuild[u] <= storerBuild'[u]
    BY <1>1, <1>3, Versions DEF TypeOK
<1>5. TypeOK'
    BY <1>1, <1>2, <1>3 DEF TypeOK
<1>6. PutsHonest'
    BY <1>2 DEF PutsHonest
<1>7. RepliesHonest'
  <2> SUFFICES ASSUME NEW q \in replies
               PROVE  q.build <= storerBuild'[q.request.storer]
    BY <1>2 DEF RepliesHonest
  <2>1. q.request.storer \in Storer /\ q.build \in Release
    BY DEF TypeOK, Reply, Request
  <2>2. q.build <= storerBuild[q.request.storer]
    BY DEF RepliesHonest
  <2> QED  BY <1>4, <2>1, <2>2, Versions
<1>8. ToldHonest'
  <2> SUFFICES ASSUME NEW c \in Client, phase[c] = "told_to_update"
               PROVE  \E u \in Storer :
                          CurrentVersion[clientBuild[c]] < MinVersion[storerBuild'[u]]
    BY <1>2 DEF ToldHonest
  <2>1. PICK u \in Storer : CurrentVersion[clientBuild[c]] < MinVersion[storerBuild[u]]
    BY DEF ToldHonest
  <2>2. MinVersion[storerBuild[u]] <= MinVersion[storerBuild'[u]]
    BY <1>4, VersionsGrow
  <2>3. clientBuild[c] \in Release
    BY DEF TypeOK
  <2> QED  BY <1>4, <2>1, <2>2, <2>3, Versions
<1> QED  BY <1>5, <1>6, <1>7, <1>8

LEMMA StepIInv == IInv /\ [Next]_vars => IInv'
<1> SUFFICES ASSUME IInv, [Next]_vars
             PROVE  IInv'
    OBVIOUS
<1>1. ASSUME NEW c \in Client, Pay(c) \/ UpgradeClient(c)
      PROVE  IInv'
    BY <1>1, StepPay, StepUpgradeClient
<1>2. ASSUME NEW c \in Client, NEW s \in Storer, Ask(c, s) \/ PutChunk(c, s)
      PROVE  IInv'
    BY <1>2, StepAsk, StepPut
<1>3. ASSUME NEW reply \in replies, Hear(reply)
      PROVE  IInv'
    BY <1>3, StepHear
<1>4. ASSUME NEW s \in Storer,
             UpgradeStorer(s) \/ \E request \in requests : Answer(s, request)
      PROVE  IInv'
    BY <1>4, StepUpgradeStorer, StepAnswer
<1>5. CASE UNCHANGED vars
    BY <1>5 DEF vars, IInv, TypeOK, RepliesHonest, PutsHonest, ToldHonest
<1> QED  BY <1>1, <1>2, <1>3, <1>4, <1>5 DEF Next

\* The invariant above, of every behaviour.
THEOREM Invariance == Spec => []IInv
BY InitIInv, StepIInv, PTL DEF Spec

\* Builds, messages and uploads keep their types.
THEOREM TypeCorrect == Spec => []TypeOK
<1>1. IInv => TypeOK
    BY DEF IInv
<1> QED  BY <1>1, Invariance, PTL

\* What a quote and a PUT on record say of each other.
LEMMA QuoteAndPut ==
    ASSUME IInv, NEW p \in puts, NEW reply \in replies,
           Versioned(p.release), QuotedFor(reply, p)
    PROVE  /\ reply.build \in Release /\ p.build \in Release /\ p.release \in Release
           /\ reply.build <= p.build
           /\ MinVersion[reply.build] <= CurrentVersion[p.release]
           /\ CurrentVersion[p.release] <= CurrentVersion[p.build]
           /\ ~ p.accepted => CurrentVersion[p.release] < MinVersion[p.build]
<1>1. /\ reply.build \in Release /\ p.build \in Release /\ p.release \in Release
      /\ reply.build <= p.build
    BY DEF IInv, TypeOK, Reply, Put, QuotedFor
<1>2. settlement_compatibility(reply.build, CurrentVersion[p.release]) = "Compatible"
    BY DEF IInv, RepliesHonest, QuotedFor
<1>3. /\ MinVersion[reply.build] <= CurrentVersion[p.release]
      /\ CurrentVersion[p.release] <= CurrentVersion[reply.build]
    BY <1>1, <1>2, Versions DEF settlement_compatibility
<1>4. CurrentVersion[reply.build] <= CurrentVersion[p.build]
    BY <1>1, VersionsGrow
<1>5. CurrentVersion[p.release] <= CurrentVersion[p.build]
    BY <1>1, <1>3, <1>4, Versions
<1>6. p.accepted \in Verdicts(p.build, CurrentVersion[p.release])
    BY DEF IInv, PutsHonest
<1>7. ~ p.accepted => CurrentVersion[p.release] < MinVersion[p.build]
  <2>1. SUFFICES ASSUME ~ CurrentVersion[p.release] < MinVersion[p.build]
                 PROVE  p.accepted
    OBVIOUS
  <2>2. ~ CurrentVersion[p.release] > CurrentVersion[p.build]
    BY <1>1, <1>5, Versions
  <2>3. Verdicts(p.build, CurrentVersion[p.release]) = {TRUE}
    BY <2>1, <2>2, Zenon DEF Verdicts
  <2> QED  BY <1>6, <2>3, Zenon
<1> QED  BY <1>1, <1>3, <1>5, <1>7

\* A quote is kept until its storer drops the client's rule.
THEOREM Keeping == Spec => []QuotesAreKept
<1>1. IInv => QuotesAreKept
  <2> SUFFICES ASSUME IInv, NEW p \in puts, NEW reply \in replies,
                      ~ p.accepted, Versioned(p.release), QuotedFor(reply, p)
               PROVE  /\ reply.build < p.build
                      /\ CurrentVersion[p.release] < MinVersion[p.build]
    BY DEF QuotesAreKept
  <2>1. CurrentVersion[p.release] < MinVersion[p.build]
    BY QuoteAndPut
  <2>2. reply.build # p.build
    BY <2>1, QuoteAndPut, Versions
  <2> QED  BY <2>1, <2>2, QuoteAndPut, Versions
<1> QED  BY <1>1, Invariance, PTL

\* Whoever is told to update has a later release to update to.
THEOREM Telling == Spec => []OnlyTheOutdatedAreTold
<1>1. IInv => OnlyTheOutdatedAreTold
  <2> SUFFICES ASSUME IInv, NEW c \in Client, phase[c] = "told_to_update"
               PROVE  \E s \in Storer, r \in Release :
                          /\ clientBuild[c] < r
                          /\ CurrentVersion[clientBuild[c]] < MinVersion[storerBuild[s]]
                          /\ MinVersion[storerBuild[s]] <= CurrentVersion[r]
                          /\ CurrentVersion[r] <= CurrentVersion[storerBuild[s]]
    BY DEF OnlyTheOutdatedAreTold
  <2>1. PICK s \in Storer : CurrentVersion[clientBuild[c]] < MinVersion[storerBuild[s]]
    BY DEF IInv, ToldHonest
  <2>2. PICK r \in Release : r = storerBuild[s]
    BY DEF IInv, TypeOK
  <2>3. clientBuild[c] \in Release
    BY DEF IInv, TypeOK
  <2>4. ~ r <= clientBuild[c]
    <3>1. r <= clientBuild[c] => CurrentVersion[r] <= CurrentVersion[clientBuild[c]]
      BY <2>2, <2>3, VersionsGrow
    <3> QED  BY <2>1, <2>2, <2>3, <3>1, Versions
  <2>5. /\ clientBuild[c] < r
        /\ MinVersion[storerBuild[s]] <= CurrentVersion[r]
        /\ CurrentVersion[r] <= CurrentVersion[storerBuild[s]]
    BY <2>2, <2>3, <2>4, Versions
  <2> QED  BY <2>1, <2>5
<1> QED  BY <1>1, Invariance, PTL

-----------------------------------------------------------------------------
(* The rule through upgrades *)

\* A storer promises to accept exactly where its build does accept, calls a
\* client too old exactly where it does not, and declines the rest: a quote is
\* never given on a hope (settlement_compatibility, bounded on both sides).
THEOREM PromiseIsTheRule ==
    ASSUME NEW r \in Release, NEW version \in Nat
    PROVE  /\ settlement_compatibility(r, version) = "Compatible"
              <=> Verdicts(r, version) = {TRUE}
           /\ settlement_compatibility(r, version) = "ClientTooOld"
              <=> Verdicts(r, version) = {FALSE}
           /\ settlement_compatibility(r, version) = "NodeTooOld"
              <=> Verdicts(r, version) = BOOLEAN
<1>1. {TRUE} # {FALSE} /\ {TRUE} # BOOLEAN /\ {FALSE} # BOOLEAN
    OBVIOUS
<1>2. MinVersion[r] <= CurrentVersion[r] /\ MinVersion[r] \in Nat /\ CurrentVersion[r] \in Nat
    BY Versions
<1>3. CASE version < MinVersion[r]
    BY <1>1, <1>3, Zenon DEF settlement_compatibility, Verdicts
<1>4. CASE ~ (version < MinVersion[r]) /\ version > CurrentVersion[r]
    BY <1>1, <1>4, Zenon DEF settlement_compatibility, Verdicts
<1>5. CASE ~ (version < MinVersion[r]) /\ ~ (version > CurrentVersion[r])
    BY <1>1, <1>5, Zenon DEF settlement_compatibility, Verdicts
<1> QED  BY <1>3, <1>4, <1>5

\* How far a storer has come, by its answer to one version.
Stage == [NodeTooOld |-> 0, Compatible |-> 1, ClientTooOld |-> 2]

LEMMA LaterStage ==
    ASSUME NEW r \in Release, NEW q \in Release, r <= q, NEW version \in Nat
    PROVE  Stage[settlement_compatibility(r, version)]
           <= Stage[settlement_compatibility(q, version)]
<1>1. /\ MinVersion[r] <= MinVersion[q] /\ CurrentVersion[r] <= CurrentVersion[q]
      /\ MinVersion[r] \in Nat /\ MinVersion[q] \in Nat
      /\ CurrentVersion[r] \in Nat /\ CurrentVersion[q] \in Nat
    BY VersionsGrow, Versions
<1>2. /\ Stage["NodeTooOld"] = 0 /\ Stage["Compatible"] = 1
      /\ Stage["ClientTooOld"] = 2
    BY DEF Stage
<1>3. \A b \in {r, q} :
          Stage[settlement_compatibility(b, version)]
          = IF version < MinVersion[b] THEN 2
            ELSE IF version > CurrentVersion[b] THEN 0 ELSE 1
    BY <1>2 DEF settlement_compatibility
<1> QED  BY <1>1, <1>3

\* To one client a storer is too old, then compatible, then the client is too
\* old for it, and nothing takes that back.  So a NodeTooOld storer may be asked
\* again after its upgrade, and ClientTooOld is terminal, as the client takes
\* it: asking again on the same release cannot help (SettlementCompatibility).
VerdictsMoveOneWay ==
    [][\A s \in Storer, version \in Nat :
           Stage[settlement_compatibility(storerBuild[s], version)]
           <= Stage[settlement_compatibility(storerBuild'[s], version)]]_vars

\* Every interleaving of upgrades, quotes and payments keeps to that order.
THEOREM NoWayBack == Spec => VerdictsMoveOneWay
<1>1. IInv /\ IInv' /\ [Next]_vars =>
          [\A s \in Storer, version \in Nat :
               Stage[settlement_compatibility(storerBuild[s], version)]
               <= Stage[settlement_compatibility(storerBuild'[s], version)]]_vars
  <2> SUFFICES ASSUME IInv, IInv', [Next]_vars, NEW s \in Storer, NEW version \in Nat
               PROVE  Stage[settlement_compatibility(storerBuild[s], version)]
                      <= Stage[settlement_compatibility(storerBuild'[s], version)]
    OBVIOUS
  <2>1. /\ storerBuild \in [Storer -> Release] /\ storerBuild[s] \in Nat
        /\ storerBuild[s] \in Release /\ storerBuild'[s] \in Release
    BY Versions DEF IInv, TypeOK
  <2>2. CASE \E u \in Storer : UpgradeStorer(u)
    <3>1. PICK u \in Storer :
              \E r \in Later(storerBuild[u]) :
                  storerBuild' = [storerBuild EXCEPT ![u] = r]
      BY <2>2 DEF UpgradeStorer
    <3>2. storerBuild' = [storerBuild EXCEPT ![u] = storerBuild[u] + 1]
      BY <3>1 DEF Later
    <3>3. storerBuild[s] <= storerBuild'[s]
      BY <2>1, <3>2
    <3> QED  BY <2>1, <3>3, LaterStage
  <2>3. CASE UNCHANGED storerBuild
    BY <2>1, <2>3, LaterStage
  <2>4. (\E u \in Storer : UpgradeStorer(u)) \/ UNCHANGED storerBuild
    BY DEF Next, vars, Pay, UpgradeClient, Ask, PutChunk, Hear, Answer
  <2> QED  BY <2>2, <2>3, <2>4
<1> QED  BY <1>1, Invariance, PTL DEF VerdictsMoveOneWay, Spec

-----------------------------------------------------------------------------
(* Staged rollouts *)

\* No storer runs a release that some client's rule is too old for, and none
\* has been sent a PUT on one.
StagedInv ==
    /\ \A s \in Storer : Adopted(storerBuild[s])
    /\ \A p \in puts : MinVersion[p.build] <= CurrentVersion[p.release]

LEMMA StagedInit == Staged /\ Init => StagedInv
BY DEF Init, StagedInv

LEMMA StagedStep == Staged /\ IInv /\ StagedInv /\ [Next]_vars => StagedInv'
<1> SUFFICES ASSUME Staged, IInv, StagedInv, [Next]_vars
             PROVE  StagedInv'
    OBVIOUS
<1>1. ASSUME UNCHANGED <<clientBuild, storerBuild, puts>>
      PROVE  StagedInv'
    BY <1>1 DEF StagedInv, Adopted
<1>2. ASSUME NEW c \in Client, UpgradeClient(c)
      PROVE  StagedInv'
  <2>1. PICK r \in Later(clientBuild[c]) :
            clientBuild' = [clientBuild EXCEPT ![c] = r]
    BY <1>2 DEF UpgradeClient
  <2>2. UNCHANGED <<storerBuild, puts>>
    BY <1>2 DEF UpgradeClient
  <2>3. r \in Release /\ clientBuild[c] \in Release /\ clientBuild[c] <= r
    BY <2>1, Versions DEF Later, IInv, TypeOK
  <2>4. CurrentVersion[clientBuild[c]] <= CurrentVersion[r]
    BY <2>3, VersionsGrow
  <2>5. \A d \in Client : /\ clientBuild[d] \in Release /\ clientBuild'[d] \in Release
                          /\ CurrentVersion[clientBuild[d]] <= CurrentVersion[clientBuild'[d]]
    BY <2>1, <2>3, <2>4, Versions DEF IInv, TypeOK
  <2>6. ASSUME NEW s \in Storer
        PROVE  Adopted(storerBuild[s])'
    <3> SUFFICES ASSUME NEW d \in Client
                 PROVE  MinVersion[storerBuild[s]] <= CurrentVersion[clientBuild'[d]]
      BY <2>2 DEF Adopted
    <3>1. MinVersion[storerBuild[s]] <= CurrentVersion[clientBuild[d]]
      BY DEF StagedInv, Adopted
    <3>2. storerBuild[s] \in Release
      BY DEF IInv, TypeOK
    <3> QED  BY <2>5, <3>1, <3>2, Versions
  <2> QED  BY <2>2, <2>6 DEF StagedInv
<1>3. ASSUME NEW c \in Client, NEW s \in Storer, PutChunk(c, s)
      PROVE  StagedInv'
    BY <1>3 DEF PutChunk, StagedInv, Adopted
<1>4. ASSUME NEW s \in Storer, UpgradeStorer(s)
      PROVE  StagedInv'
    BY <1>4 DEF UpgradeStorer, StagedInv, Adopted, IInv, TypeOK
<1> QED
    BY <1>1, <1>2, <1>3, <1>4 DEF Next, Pay, Ask, Hear, Answer, vars

\* Raising CURRENT first and MIN after adoption strands nobody, however
\* upgrades, quotes, payments and PUTs interleave.
THEOREM StagedRollout ==
    ASSUME Staged
    PROVE  Spec => []NobodyIsStranded
<1>1. Init => IInv /\ StagedInv
    BY InitIInv, StagedInit
<1>2. IInv /\ StagedInv /\ [Next]_vars => (IInv /\ StagedInv)'
    BY StepIInv, StagedStep
<1>3. IInv /\ StagedInv => NobodyIsStranded
  <2> SUFFICES ASSUME IInv, StagedInv
               PROVE  NobodyIsStranded
    OBVIOUS
  <2>1. ASSUME NEW p \in puts, NEW reply \in replies,
               Versioned(p.release), QuotedFor(reply, p)
        PROVE  p.accepted
    <3>1. MinVersion[p.build] <= CurrentVersion[p.release]
      BY DEF StagedInv
    <3> QED  BY <2>1, <3>1, QuoteAndPut, Versions
  <2>2. ASSUME NEW c \in Client
        PROVE  phase[c] # "told_to_update"
    <3>1. \A s \in Storer :
              /\ MinVersion[storerBuild[s]] <= CurrentVersion[clientBuild[c]]
              /\ storerBuild[s] \in Release /\ clientBuild[c] \in Release
      BY DEF StagedInv, Adopted, IInv, TypeOK
    <3> QED  BY <3>1, Versions DEF IInv, ToldHonest
  <2> QED  BY <2>1, <2>2 DEF NobodyIsStranded
<1> QED  BY <1>1, <1>2, <1>3, PTL DEF Spec

=============================================================================
