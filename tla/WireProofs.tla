----------------------------- MODULE WireProofs -----------------------------
(***************************************************************************)
(* Proofs about Wire, for every number of clients and nodes, any releases   *)
(* in use, any sizes and any choice of requests and errors.                 *)
(***************************************************************************)
EXTENDS Wire, TLAPS

-----------------------------------------------------------------------------
(* Enums that only grow at their end *)

Distinct(s) == \A i, j \in 1..Len(s) : s[i] = s[j] => i = j

Prefix(s, t) == Len(s) <= Len(t) /\ \A i \in 1..Len(s) : t[i] = s[i]

\* The names of variants and of errors, by the release that added them.
New1 == {"PutRequest", "PutResponse", "GetRequest", "GetResponse", "QuoteRequest",
         "QuoteResponse", "MerkleCandidateQuoteRequest",
         "MerkleCandidateQuoteResponse"}
New2 == {"QuoteRequestV2", "MerkleCandidateQuoteRequestV2"}
New3 == {"PointerPutRequest", "PointerPutResponse", "PointerGetRequest",
         "PointerGetResponse"}
New4 == {"GetOrCloserRequest", "GetOrCloserResponse"}

Added2 == <<"QuoteRequestV2", "MerkleCandidateQuoteRequestV2">>
Added3 == <<"PointerPutRequest", "PointerPutResponse", "PointerGetRequest",
            "PointerGetResponse">>
Added4 == <<"GetOrCloserRequest", "GetOrCloserResponse">>

Old == {"SerializationFailed", "DeserializationFailed", "MessageTooLarge",
        "ChunkTooLarge", "AddressMismatch", "StorageFailed", "PaymentFailed",
        "QuoteFailed", "Internal"}

LEMMA Firsts ==
    FirstVariants \in Seq(New1) /\ Len(FirstVariants) = 8 /\ Distinct(FirstVariants)
<1>1. FirstVariants \in Seq(New1)
    BY DEF FirstVariants, New1
<1>2. Len(FirstVariants) = 8
    BY DEF FirstVariants
<1>3. \A i, j \in 1..8 : FirstVariants[i] = FirstVariants[j] => i = j
    BY DEF FirstVariants
<1> QED  BY <1>1, <1>2, <1>3 DEF Distinct

LEMMA Seconds == Added2 \in Seq(New2) /\ Len(Added2) = 2 /\ Distinct(Added2)
BY DEF Added2, New2, Distinct

LEMMA Thirds == Added3 \in Seq(New3) /\ Len(Added3) = 4 /\ Distinct(Added3)
BY DEF Added3, New3, Distinct

LEMMA Fourths == Added4 \in Seq(New4) /\ Len(Added4) = 2 /\ Distinct(Added4)
BY DEF Added4, New4, Distinct

LEMMA Errors ==
    /\ FirstErrors \in Seq(Old) /\ Len(FirstErrors) = 9 /\ Distinct(FirstErrors)
    /\ \E s : /\ s \in Seq(VersionErrors) /\ Len(s) = 2 /\ Distinct(s)
              /\ s = <<"ClientUpdateRequired", "StorerUpdateRequired">>
<1>1. FirstErrors \in Seq(Old)
    BY DEF FirstErrors, Old
<1>2. Len(FirstErrors) = 9
    BY DEF FirstErrors
<1>3. \A i, j \in 1..9 : FirstErrors[i] = FirstErrors[j] => i = j
    BY DEF FirstErrors
<1> DEFINE s == <<"ClientUpdateRequired", "StorerUpdateRequired">>
<1>4. s \in Seq(VersionErrors) /\ Len(s) = 2 /\ Distinct(s)
    BY DEF VersionErrors, Distinct
<1> QED  BY <1>1, <1>2, <1>3, <1>4 DEF Distinct

LEMMA NamesDiffer ==
    /\ New1 \cap New2 = {} /\ (New1 \cup New2) \cap New3 = {}
    /\ (New1 \cup New2 \cup New3) \cap New4 = {}
    /\ Old \cap VersionErrors = {}
    /\ "None" \notin Old \cup VersionErrors
BY DEF New1, New2, New3, New4, Old, VersionErrors

LEMMA Appended ==
    ASSUME NEW S, NEW T, S \cap T = {}, NEW s \in Seq(S), NEW t \in Seq(T),
           Distinct(s), Distinct(t)
    PROVE  /\ s \o t \in Seq(S \cup T) /\ Distinct(s \o t) /\ Prefix(s, s \o t)
           /\ Len(s \o t) = Len(s) + Len(t)
<1>1. /\ s \o t \in Seq(S \cup T) /\ Len(s \o t) = Len(s) + Len(t)
      /\ Len(s) \in Nat /\ Len(t) \in Nat
    OBVIOUS
<1>2. \A i \in 1..Len(s) : (s \o t)[i] = s[i] /\ s[i] \in S
    OBVIOUS
<1>3. \A i \in 1..(Len(s) + Len(t)) : ~ (i <= Len(s)) =>
          /\ i - Len(s) \in 1..Len(t) /\ (s \o t)[i] = t[i - Len(s)]
          /\ t[i - Len(s)] \in T
    OBVIOUS
<1>4. Prefix(s, s \o t)
    BY <1>1, <1>2 DEF Prefix
<1> DEFINE u == s \o t
<1> HIDE DEF u
<1>5. ASSUME NEW i \in 1..(Len(s) + Len(t)), NEW j \in 1..(Len(s) + Len(t)), u[i] = u[j]
      PROVE  i = j
  <2>1. CASE i <= Len(s) /\ j <= Len(s)
    BY <1>1, <1>2, <1>5, <2>1 DEF Distinct, u
  <2>2. CASE ~ (i <= Len(s)) /\ ~ (j <= Len(s))
    <3>1. i - Len(s) = j - Len(s)
      BY <1>3, <1>5, <2>2 DEF Distinct, u
    <3> QED  BY <1>1, <3>1
  <2>3. CASE i <= Len(s) /\ ~ (j <= Len(s))
    BY <1>1, <1>2, <1>3, <1>5, <2>3 DEF u
  <2>4. CASE ~ (i <= Len(s)) /\ j <= Len(s)
    BY <1>1, <1>2, <1>3, <1>5, <2>4 DEF u
  <2> QED  BY <2>1, <2>2, <2>3, <2>4
<1>6. Distinct(u)
    BY <1>1, <1>5 DEF Distinct, u
<1> QED  BY <1>1, <1>4, <1>6 DEF u

LEMMA PrefixOfPrefix ==
    ASSUME NEW S, NEW s \in Seq(S), NEW t \in Seq(S), NEW u \in Seq(S),
           Prefix(s, t), Prefix(t, u)
    PROVE  Prefix(s, u)
BY DEF Prefix

Body2 == FirstVariants \o Added2
Body3 == Body2 \o Added3
Body4 == Body3 \o Added4
Error2 == FirstErrors \o <<"ClientUpdateRequired", "StorerUpdateRequired">>

LEMMA Empty ==
    ASSUME NEW S, NEW s \in Seq(S)
    PROVE  s \o <<>> = s
OBVIOUS

AllNames == New1 \cup New2 \cup New3 \cup New4

LEMMA BodySequences ==
    /\ FirstVariants \in Seq(New1)
    /\ Body2 \in Seq(New1 \cup New2)
    /\ Body3 \in Seq(New1 \cup New2 \cup New3)
    /\ Body4 \in Seq(AllNames)
    /\ Distinct(FirstVariants) /\ Distinct(Body2) /\ Distinct(Body3) /\ Distinct(Body4)
    /\ Prefix(FirstVariants, Body2) /\ Prefix(Body2, Body3) /\ Prefix(Body3, Body4)
<1>1. /\ Body2 \in Seq(New1 \cup New2) /\ Distinct(Body2)
      /\ Prefix(FirstVariants, Body2)
    BY Firsts, Seconds, NamesDiffer, Appended DEF Body2
<1>2. /\ Body3 \in Seq((New1 \cup New2) \cup New3) /\ Distinct(Body3)
      /\ Prefix(Body2, Body3)
    BY <1>1, Thirds, NamesDiffer, Appended DEF Body3
<1>3. /\ Body4 \in Seq((New1 \cup New2 \cup New3) \cup New4) /\ Distinct(Body4)
      /\ Prefix(Body3, Body4)
    BY <1>2, Fourths, NamesDiffer, Appended DEF Body4
<1> QED  BY <1>1, <1>2, <1>3, Firsts DEF AllNames

LEMMA BodyOfRelease ==
    /\ ChunkMessageBody(1) = FirstVariants /\ ChunkMessageBody(2) = Body2
    /\ ChunkMessageBody(3) = Body3 /\ ChunkMessageBody(4) = Body4
<1>1. FirstVariants \o <<>> = FirstVariants /\ Body2 \o <<>> = Body2 /\ Body3 \o <<>> = Body3
    BY BodySequences, Empty
<1>2. ChunkMessageBody(1) = ((FirstVariants \o <<>>) \o <<>>) \o <<>>
    BY DEF ChunkMessageBody, Since
<1>3. ChunkMessageBody(2) = ((FirstVariants \o Added2) \o <<>>) \o <<>>
    BY DEF ChunkMessageBody, Since, Added2
<1>4. ChunkMessageBody(3) = ((FirstVariants \o Added2) \o Added3) \o <<>>
    BY DEF ChunkMessageBody, Since, Added2, Added3
<1>5. ChunkMessageBody(4) = ((FirstVariants \o Added2) \o Added3) \o Added4
    BY DEF ChunkMessageBody, Since, Added2, Added3, Added4
<1> QED  BY <1>1, <1>2, <1>3, <1>4, <1>5 DEF Body2, Body3, Body4

\* A later release has every variant where an earlier one has it.
LEMMA BodiesGrow ==
    ASSUME NEW a \in AllReleases, NEW b \in AllReleases
    PROVE  /\ ChunkMessageBody(b) \in Seq(AllNames) /\ Distinct(ChunkMessageBody(b))
           /\ a <= b => Prefix(ChunkMessageBody(a), ChunkMessageBody(b))
<1>1. \A c \in AllReleases : c \in {1, 2, 3, 4}
    BY DEF AllReleases
<1>2. /\ FirstVariants \in Seq(AllNames) /\ Body2 \in Seq(AllNames)
      /\ Body3 \in Seq(AllNames) /\ Body4 \in Seq(AllNames)
    BY BodySequences DEF AllNames
<1>3. /\ Prefix(FirstVariants, Body3) /\ Prefix(Body2, Body4)
      /\ Prefix(FirstVariants, Body4)
    BY <1>2, BodySequences, PrefixOfPrefix
<1>4. \A s \in Seq(AllNames) : Prefix(s, s)
    BY DEF Prefix
<1> QED  BY <1>1, <1>2, <1>3, <1>4, BodySequences, BodyOfRelease

LEMMA ErrorOfRelease ==
    ASSUME NEW b \in AllReleases
    PROVE  ProtocolError(b) = IF b = 1 THEN FirstErrors ELSE Error2
<1>1. b \in {1, 2, 3, 4}
    BY DEF AllReleases
<1>2. FirstErrors \o <<>> = FirstErrors
    BY Errors, Empty
<1>3. CASE b = 1
    BY <1>2, <1>3 DEF ProtocolError, Since
<1>4. CASE b # 1
  <2>1. b >= 2
    BY <1>1, <1>4
  <2> QED  BY <1>4, <2>1 DEF ProtocolError, Since, Error2
<1> QED  BY <1>3, <1>4

LEMMA ErrorsGrow ==
    ASSUME NEW a \in AllReleases, NEW b \in AllReleases
    PROVE  /\ ProtocolError(b) \in Seq(Old \cup VersionErrors) /\ Distinct(ProtocolError(b))
           /\ a <= b => Prefix(ProtocolError(a), ProtocolError(b))
<1>1. /\ Error2 \in Seq(Old \cup VersionErrors) /\ Distinct(Error2)
      /\ Prefix(FirstErrors, Error2)
    BY Errors, NamesDiffer, Appended DEF Error2
<1>2. FirstErrors \in Seq(Old \cup VersionErrors)
    BY Errors
<1>3. \A s \in Seq(Old \cup VersionErrors) : Prefix(s, s)
    BY DEF Prefix
<1>4. a <= b /\ b = 1 => a = 1
    BY DEF AllReleases
<1> QED  BY <1>1, <1>2, <1>3, <1>4, ErrorOfRelease, Errors

-----------------------------------------------------------------------------
(* Who knows what *)

LEMMA MembersOfAppended ==
    ASSUME NEW S, NEW s \in Seq(S), NEW T, NEW t \in Seq(T)
    PROVE  Members(s \o t) = Members(s) \cup Members(t)
<1> DEFINE u == s \o t
<1>1. /\ Len(u) = Len(s) + Len(t) /\ Len(s) \in Nat /\ Len(t) \in Nat
      /\ DOMAIN u = 1..Len(u) /\ DOMAIN s = 1..Len(s) /\ DOMAIN t = 1..Len(t)
    OBVIOUS
<1>2. \A i \in 1..Len(s) : u[i] = s[i]
    OBVIOUS
<1>3. \A i \in 1..Len(t) : u[Len(s) + i] = t[i] /\ Len(s) + i \in 1..(Len(s) + Len(t))
    OBVIOUS
<1>4. \A i \in 1..(Len(s) + Len(t)) : ~ (i <= Len(s)) =>
          i - Len(s) \in 1..Len(t) /\ u[i] = t[i - Len(s)]
    OBVIOUS
<1> HIDE DEF u
<1>5. \A x \in Members(u) : x \in Members(s) \cup Members(t)
  <2> SUFFICES ASSUME NEW i \in 1..(Len(s) + Len(t))
               PROVE  u[i] \in Members(s) \cup Members(t)
    BY <1>1 DEF Members
  <2>1. CASE i <= Len(s)
    <3>1. i \in 1..Len(s)
      BY <1>1, <2>1
    <3> QED  BY <1>1, <1>2, <3>1 DEF Members
  <2>2. CASE ~ (i <= Len(s))
    BY <1>1, <1>4, <2>2 DEF Members
  <2> QED  BY <2>1, <2>2
<1>6. \A x \in Members(s) : x \in Members(u)
  <2> SUFFICES ASSUME NEW i \in 1..Len(s) PROVE s[i] \in Members(u)
    BY <1>1 DEF Members
  <2>1. i \in DOMAIN u
    BY <1>1
  <2> QED  BY <1>2, <2>1 DEF Members
<1>7. \A x \in Members(t) : x \in Members(u)
  <2> SUFFICES ASSUME NEW i \in 1..Len(t) PROVE t[i] \in Members(u)
    BY <1>1 DEF Members
  <2>1. Len(s) + i \in DOMAIN u
    BY <1>1, <1>3
  <2> QED  BY <1>3, <2>1 DEF Members
<1> QED  BY <1>5, <1>6, <1>7 DEF u

LEMMA MembersOfEach ==
    /\ Members(FirstVariants) = New1 /\ Members(Added2) = New2
    /\ Members(Added3) = New3 /\ Members(Added4) = New4
<1>1. Members(Added2) = New2
  <2>1. DOMAIN Added2 = {1, 2} /\ Added2[1] = "QuoteRequestV2"
        /\ Added2[2] = "MerkleCandidateQuoteRequestV2"
    BY DEF Added2
  <2> QED  BY <2>1 DEF Members, New2
<1>2. Members(Added3) = New3
  <2>1. /\ DOMAIN Added3 = {1, 2, 3, 4} /\ Added3[1] = "PointerPutRequest"
        /\ Added3[2] = "PointerPutResponse" /\ Added3[3] = "PointerGetRequest"
        /\ Added3[4] = "PointerGetResponse"
    BY DEF Added3
  <2> QED  BY <2>1 DEF Members, New3
<1>3. Members(Added4) = New4
  <2>1. /\ DOMAIN Added4 = {1, 2} /\ Added4[1] = "GetOrCloserRequest"
        /\ Added4[2] = "GetOrCloserResponse"
    BY DEF Added4
  <2> QED  BY <2>1 DEF Members, New4
<1>4. Members(FirstVariants) = New1
  <2>1. /\ DOMAIN FirstVariants = {1, 2, 3, 4, 5, 6, 7, 8}
        /\ FirstVariants[1] = "PutRequest" /\ FirstVariants[2] = "PutResponse"
        /\ FirstVariants[3] = "GetRequest" /\ FirstVariants[4] = "GetResponse"
        /\ FirstVariants[5] = "QuoteRequest" /\ FirstVariants[6] = "QuoteResponse"
        /\ FirstVariants[7] = "MerkleCandidateQuoteRequest"
        /\ FirstVariants[8] = "MerkleCandidateQuoteResponse"
    BY DEF FirstVariants
  <2> QED  BY <2>1 DEF Members, New1
<1> QED  BY <1>1, <1>2, <1>3, <1>4

LEMMA MembersOfBody ==
    /\ Members(ChunkMessageBody(1)) = New1
    /\ Members(ChunkMessageBody(2)) = New1 \cup New2
    /\ Members(ChunkMessageBody(3)) = New1 \cup New2 \cup New3
    /\ Members(ChunkMessageBody(4)) = AllNames
<1>1. Members(Body2) = New1 \cup New2
    BY Firsts, Seconds, MembersOfAppended, MembersOfEach DEF Body2
<1>2. Members(Body3) = New1 \cup New2 \cup New3
    BY <1>1, Thirds, BodySequences, MembersOfAppended, MembersOfEach DEF Body3
<1>3. Members(Body4) = AllNames
    BY <1>2, Fourths, BodySequences, MembersOfAppended, MembersOfEach DEF Body4, AllNames
<1> QED  BY <1>1, <1>2, <1>3, MembersOfEach, BodyOfRelease

LEMMA ResponseFields ==
    /\ \A v \in New1 \cap DOMAIN ResponseTo : ResponseTo[v] \in New1
    /\ \A v \in New2 \cap DOMAIN ResponseTo : ResponseTo[v] \in New1
    /\ \A v \in New3 \cap DOMAIN ResponseTo : ResponseTo[v] \in New3
    /\ \A v \in New4 \cap DOMAIN ResponseTo : ResponseTo[v] \in New4
    /\ DOMAIN ResponseTo \subseteq AllNames
<1>1. ResponseTo["PutRequest"] = "PutResponse" /\ ResponseTo["GetRequest"] = "GetResponse"
      /\ ResponseTo["QuoteRequest"] = "QuoteResponse"
      /\ ResponseTo["MerkleCandidateQuoteRequest"] = "MerkleCandidateQuoteResponse"
    BY DEF ResponseTo
<1>2. ResponseTo["QuoteRequestV2"] = "QuoteResponse"
      /\ ResponseTo["MerkleCandidateQuoteRequestV2"] = "MerkleCandidateQuoteResponse"
    BY DEF ResponseTo
<1>3. ResponseTo["PointerPutRequest"] = "PointerPutResponse"
      /\ ResponseTo["PointerGetRequest"] = "PointerGetResponse"
      /\ ResponseTo["GetOrCloserRequest"] = "GetOrCloserResponse"
    BY DEF ResponseTo
<1>4. DOMAIN ResponseTo =
          {"PutRequest", "GetRequest", "QuoteRequest", "QuoteRequestV2",
           "MerkleCandidateQuoteRequest", "MerkleCandidateQuoteRequestV2",
           "PointerPutRequest", "PointerGetRequest", "GetOrCloserRequest"}
    BY DEF ResponseTo
<1>5. DOMAIN ResponseTo \subseteq AllNames
    BY <1>4 DEF AllNames, New1, New2, New3, New4
<1>6. New1 \cap DOMAIN ResponseTo = {"PutRequest", "GetRequest", "QuoteRequest",
                                    "MerkleCandidateQuoteRequest"}
    BY <1>4 DEF New1
<1>7. New3 \cap DOMAIN ResponseTo = {"PointerPutRequest", "PointerGetRequest"}
    BY <1>4 DEF New3
<1>8. New4 \cap DOMAIN ResponseTo = {"GetOrCloserRequest"}
    BY <1>4 DEF New4
<1>9. \A v \in New1 \cap DOMAIN ResponseTo : ResponseTo[v] \in New1
    BY <1>1, <1>6 DEF New1
<1>10. \A v \in New2 \cap DOMAIN ResponseTo : ResponseTo[v] \in New1
    BY <1>2 DEF New1, New2
<1>11. \A v \in New3 \cap DOMAIN ResponseTo : ResponseTo[v] \in New3
    BY <1>3, <1>7 DEF New3
<1>12. \A v \in New4 \cap DOMAIN ResponseTo : ResponseTo[v] \in New4
    BY <1>3, <1>8 DEF New4
<1> QED  BY <1>5, <1>9, <1>10, <1>11, <1>12

\* Who knows a request knows its response, and the errors it may be refused with.
LEMMA AnswersAreKnown ==
    ASSUME NEW b \in AllReleases, NEW n \in AllReleases, NEW v \in DOMAIN ResponseTo,
           v \in Members(ChunkMessageBody(b))
    PROVE  /\ ResponseTo[v] \in Members(ChunkMessageBody(b))
           /\ \A e \in Refusals(n, v) : e \in Members(ProtocolError(b))
<1>1. b \in {1, 2, 3, 4}
    BY DEF AllReleases
<1>2. ResponseTo[v] \in Members(ChunkMessageBody(b))
    BY <1>1, MembersOfBody, ResponseFields DEF AllNames
<1>3. ASSUME NEW e \in Refusals(n, v) PROVE e \in Members(ProtocolError(b))
  <2>1. e \in Members(ProtocolError(n)) /\ (v \in Versioned \/ e \notin VersionErrors)
    BY <1>3 DEF Refusals
  <2>2. Members(FirstErrors) \subseteq Members(Error2)
    BY Errors, MembersOfAppended DEF Error2
  <2>3. Members(Error2) \subseteq Members(FirstErrors) \cup VersionErrors
    <3> DEFINE s == <<"ClientUpdateRequired", "StorerUpdateRequired">>
    <3>1. Members(s) \subseteq VersionErrors
      BY DEF Members, VersionErrors
    <3>2. s \in Seq(VersionErrors)
      BY Errors
    <3>3. Members(Error2) = Members(FirstErrors) \cup Members(s)
      <4> HIDE DEF s
      <4>1. Error2 = FirstErrors \o s
        BY DEF Error2, s
      <4> QED  BY <3>2, <4>1, Errors, MembersOfAppended
    <3> QED  BY <3>1, <3>3
  <2>4. v \in Versioned => b # 1
    <3>1. Versioned \cap New1 = {}
      BY DEF Versioned, New1
    <3> QED  BY <3>1, MembersOfBody
  <2>5. CASE b = 1
    BY <2>1, <2>2, <2>3, <2>4, <2>5, ErrorOfRelease
  <2>6. CASE b # 1
    BY <2>1, <2>2, <2>6, ErrorOfRelease
  <2> QED  BY <2>5, <2>6
<1> QED  BY <1>2, <1>3

-----------------------------------------------------------------------------
(* Written by one release, read by another *)

IsMessage(m) ==
    m = [id |-> m.id, variant |-> m.variant, error |-> m.error,
         content |-> m.content, proof |-> m.proof]

\* What release b can write, and read.
Known(b, m) ==
    /\ m.variant \in Members(ChunkMessageBody(b))
    /\ m.error \in {"None"} \cup Members(ProtocolError(b))

\* A position in one release's enum is that of the same member in another's, or
\* beyond its end.
LEMMA SamePosition ==
    ASSUME NEW S, NEW s \in Seq(S), NEW t \in Seq(S), Prefix(s, t) \/ Prefix(t, s),
           Distinct(s), Distinct(t), NEW x \in Members(s)
    PROVE  LET i == PositionIn(s, x)
           IN  /\ i \in DOMAIN s /\ s[i] = x /\ i # 0
               /\ i \in DOMAIN t => t[i] = x
               /\ i \in DOMAIN t <=> x \in Members(t)
<1> DEFINE i == PositionIn(s, x)
<1>1. /\ DOMAIN s = 1..Len(s) /\ DOMAIN t = 1..Len(t)
      /\ Len(s) \in Nat /\ Len(t) \in Nat
    OBVIOUS
<1>2. i \in 1..Len(s) /\ s[i] = x
    BY <1>1 DEF PositionIn, Members
<1> HIDE DEF i
<1>3. i \in 1..Len(t) => t[i] = x
    BY <1>1, <1>2 DEF Prefix
<1>4. ASSUME NEW j \in 1..Len(t), t[j] = x
      PROVE  i \in 1..Len(t)
  <2>1. CASE Prefix(s, t)
    BY <1>1, <1>2, <2>1 DEF Prefix
  <2>2. CASE Prefix(t, s)
    <3>1. j \in 1..Len(s) /\ s[j] = x
      BY <1>1, <1>4, <2>2 DEF Prefix
    <3>2. i = j
      BY <1>2, <3>1 DEF Distinct
    <3> QED  BY <3>2
  <2> QED  BY <2>1, <2>2
<1>5. i \in 1..Len(t) <=> x \in Members(t)
    BY <1>1, <1>3, <1>4 DEF Members
<1> QED  BY <1>1, <1>2, <1>3, <1>5 DEF i

LEMMA VariantPosition ==
    ASSUME NEW a \in AllReleases, NEW b \in AllReleases,
           NEW x \in Members(ChunkMessageBody(b))
    PROVE  LET i == PositionIn(ChunkMessageBody(b), x)
           IN  /\ i \in DOMAIN ChunkMessageBody(a) => ChunkMessageBody(a)[i] = x
               /\ i \in DOMAIN ChunkMessageBody(a) <=> x \in Members(ChunkMessageBody(a))
<1>1. a <= b \/ b <= a
    BY DEF AllReleases
<1> QED  BY <1>1, BodiesGrow, SamePosition

LEMMA ErrorPosition ==
    ASSUME NEW a \in AllReleases, NEW b \in AllReleases,
           NEW x \in Members(ProtocolError(b))
    PROVE  LET i == PositionIn(ProtocolError(b), x)
           IN  /\ i \in DOMAIN ProtocolError(a) => ProtocolError(a)[i] = x
               /\ i \in DOMAIN ProtocolError(a) <=> x \in Members(ProtocolError(a))
               /\ i # 0
<1>1. a <= b \/ b <= a
    BY DEF AllReleases
<1> QED  BY <1>1, ErrorsGrow, SamePosition

LEMMA NoneIsNoError ==
    ASSUME NEW b \in AllReleases
    PROVE  "None" \notin Members(ProtocolError(b)) /\ 0 \notin DOMAIN ProtocolError(b)
<1>1. /\ ProtocolError(b) \in Seq(Old \cup VersionErrors)
      /\ DOMAIN ProtocolError(b) = 1..Len(ProtocolError(b))
    BY ErrorsGrow
<1>2. Members(ProtocolError(b)) \subseteq Old \cup VersionErrors
    BY <1>1 DEF Members
<1> QED  BY <1>1, <1>2, NamesDiffer

LEMMA Replaced ==
    ASSUME NEW m, IsMessage(m), NEW v, NEW e
    PROVE  [m EXCEPT !.variant = v, !.error = e]
           = [id |-> m.id, variant |-> v, error |-> e,
              content |-> m.content, proof |-> m.proof]
<1>1. DOMAIN m = {"id", "variant", "error", "content", "proof"}
    BY DEF IsMessage
<1> DEFINE n == [m EXCEPT !.variant = v, !.error = e]
           o == [id |-> m.id, variant |-> v, error |-> e,
                 content |-> m.content, proof |-> m.proof]
<1>2. DOMAIN n = DOMAIN m /\ n = [f \in DOMAIN n |-> n[f]]
    OBVIOUS
<1>3. DOMAIN o = DOMAIN m /\ o = [f \in DOMAIN o |-> o[f]]
    BY <1>1
<1>4. /\ n["id"] = m.id /\ n["variant"] = v /\ n["error"] = e
      /\ n["content"] = m.content /\ n["proof"] = m.proof
    BY <1>1
<1>5. /\ o["id"] = m.id /\ o["variant"] = v /\ o["error"] = e
      /\ o["content"] = m.content /\ o["proof"] = m.proof
    OBVIOUS
<1> HIDE DEF n, o
<1>6. \A f \in DOMAIN m : n[f] = o[f]
    BY <1>1, <1>4, <1>5
<1>7. n = o
    BY <1>2, <1>3, <1>6
<1> QED  BY <1>7 DEF n, o

LEMMA Encoded ==
    ASSUME NEW b, NEW m, IsMessage(m)
    PROVE  encode(b, m) =
               [id |-> m.id, variant |-> PositionIn(ChunkMessageBody(b), m.variant),
                error |-> IF m.error = "None" THEN 0
                          ELSE PositionIn(ProtocolError(b), m.error),
                content |-> m.content, proof |-> m.proof]
BY Replaced DEF encode

LEMMA Decoded ==
    ASSUME NEW b, NEW data, IsMessage(data)
    PROVE  decode(b, data) =
               IF \/ Size(data) > MAX_WIRE_MESSAGE_SIZE
                  \/ data.variant \notin DOMAIN ChunkMessageBody(b)
                  \/ data.error \notin {0} \cup DOMAIN ProtocolError(b)
               THEN {}
               ELSE {[id |-> data.id, variant |-> ChunkMessageBody(b)[data.variant],
                      error |-> IF data.error = 0 THEN "None"
                                ELSE ProtocolError(b)[data.error],
                      content |-> data.content, proof |-> data.proof]}
BY Replaced DEF decode

\* What release a reads of what release b wrote is the message, if it is not too
\* large and a knows all that is in it, and nothing otherwise.
THEOREM ReadsWhatWasWritten ==
    ASSUME NEW a \in AllReleases, NEW b \in AllReleases, NEW m, IsMessage(m),
           Known(b, m)
    PROVE  decode(a, encode(b, m)) =
               IF Size(m) > MAX_WIRE_MESSAGE_SIZE \/ ~ Known(a, m) THEN {} ELSE {m}
<1> DEFINE v == PositionIn(ChunkMessageBody(b), m.variant)
           e == IF m.error = "None" THEN 0 ELSE PositionIn(ProtocolError(b), m.error)
           data == encode(b, m)
<1>1. /\ IsMessage(data) /\ data.id = m.id /\ data.variant = v /\ data.error = e
      /\ data.content = m.content /\ data.proof = m.proof
    BY Encoded DEF IsMessage
<1>2. Size(data) = Size(m)
    BY <1>1 DEF Size
<1>3. /\ v \in DOMAIN ChunkMessageBody(a) <=> m.variant \in Members(ChunkMessageBody(a))
      /\ v \in DOMAIN ChunkMessageBody(a) => ChunkMessageBody(a)[v] = m.variant
    BY VariantPosition DEF Known
<1>4. /\ e \in {0} \cup DOMAIN ProtocolError(a)
             <=> m.error \in {"None"} \cup Members(ProtocolError(a))
      /\ e \in DOMAIN ProtocolError(a) => ProtocolError(a)[e] = m.error
      /\ e = 0 <=> m.error = "None"
  <2>1. CASE m.error = "None"
    BY <2>1, NoneIsNoError
  <2>2. CASE m.error # "None"
    <3>1. m.error \in Members(ProtocolError(b))
      BY <2>2 DEF Known
    <3>2. e = PositionIn(ProtocolError(b), m.error)
      BY <2>2
    <3> HIDE DEF e
    <3> QED  BY <2>2, <3>1, <3>2, ErrorPosition
  <2> QED  BY <2>1, <2>2
<1> HIDE DEF v, e, data
<1>5. decode(a, data) =
          IF \/ Size(m) > MAX_WIRE_MESSAGE_SIZE
             \/ v \notin DOMAIN ChunkMessageBody(a)
             \/ e \notin {0} \cup DOMAIN ProtocolError(a)
          THEN {}
          ELSE {[id |-> m.id, variant |-> ChunkMessageBody(a)[v],
                 error |-> IF e = 0 THEN "None" ELSE ProtocolError(a)[e],
                 content |-> m.content, proof |-> m.proof]}
    BY <1>1, <1>2, Decoded
<1>6. CASE Size(m) > MAX_WIRE_MESSAGE_SIZE \/ ~ Known(a, m)
    BY <1>3, <1>4, <1>5, <1>6 DEF Known, data
<1>7. CASE ~ (Size(m) > MAX_WIRE_MESSAGE_SIZE \/ ~ Known(a, m))
  <2>1. /\ v \in DOMAIN ChunkMessageBody(a) /\ ChunkMessageBody(a)[v] = m.variant
        /\ e \in {0} \cup DOMAIN ProtocolError(a)
    BY <1>3, <1>4, <1>7 DEF Known
  <2>2. (IF e = 0 THEN "None" ELSE ProtocolError(a)[e]) = m.error
    BY <1>4, <2>1
  <2> QED  BY <1>5, <1>7, <2>1, <2>2 DEF IsMessage, data
<1> QED  BY <1>6, <1>7

\* A prefix has no members of its own.
LEMMA MembersOfPrefix ==
    ASSUME NEW S, NEW s \in Seq(S), NEW t \in Seq(S), Prefix(s, t)
    PROVE  Members(s) \subseteq Members(t)
<1>1. /\ DOMAIN s = 1..Len(s) /\ DOMAIN t = 1..Len(t)
      /\ Len(s) \in Nat /\ Len(t) \in Nat
    OBVIOUS
<1>2. \A i \in 1..Len(s) : i \in 1..Len(t) /\ t[i] = s[i]
    BY <1>1 DEF Prefix
<1> QED  BY <1>1, <1>2 DEF Members

\* Whatever an earlier release can say, a later one reads as it was meant, of
\* any size that decode lets pass; so no upgrade of a peer, however many releases
\* it skips, ever cuts off one that stays behind (append-only enums, and the
\* tests that pin their wire values).
THEOREM LaterReleasesReadEarlier ==
    ASSUME NEW a \in AllReleases, NEW b \in AllReleases, b <= a,
           NEW m, IsMessage(m), Known(b, m), Size(m) \in Nat
    PROVE  /\ Known(a, m)
           /\ decode(a, encode(b, m)) = decode(b, encode(b, m))
           /\ Size(m) <= MAX_WIRE_MESSAGE_SIZE => decode(a, encode(b, m)) = {m}
<1>1. Members(ChunkMessageBody(b)) \subseteq Members(ChunkMessageBody(a))
    BY BodiesGrow, MembersOfPrefix
<1>2. Members(ProtocolError(b)) \subseteq Members(ProtocolError(a))
    BY ErrorsGrow, MembersOfPrefix
<1>3. Known(a, m)
    BY <1>1, <1>2 DEF Known
<1>4. decode(a, encode(b, m)) = IF Size(m) > MAX_WIRE_MESSAGE_SIZE THEN {} ELSE {m}
    BY <1>3, ReadsWhatWasWritten
<1>5. decode(b, encode(b, m)) = IF Size(m) > MAX_WIRE_MESSAGE_SIZE THEN {} ELSE {m}
    BY ReadsWhatWasWritten
<1> QED  BY <1>3, <1>4, <1>5, SizeAssumption

-----------------------------------------------------------------------------
(* The inductive invariant *)

\* The bytes of a request are a release's for it.
RequestsReal ==
    \A p \in requests : \E b \in AllReleases :
        Known(b, p.re.message) /\ p.data = encode(b, p.re.message)

\* A reply answers its request under the request's id, may be refused with only
\* what the request has earned, fits the cap, and was said.
Answer(p) ==
    /\ IsMessage(p.of) /\ p.of.id = p.re.message.id
    /\ p.of.variant = ResponseTo[p.re.message.variant]
    /\ \E n \in AllReleases :
           p.of.error \in {"None"} \cup Refusals(n, p.re.message.variant)
    /\ ~ (Size(p.of) > MAX_WIRE_MESSAGE_SIZE)
    /\ \E b \in AllReleases : Known(b, p.of) /\ p.data = encode(b, p.of)
    /\ [request |-> p.re,
        reply |-> [variant |-> p.of.variant, error |-> p.of.error]] \in said

RepliesReal == \A p \in replies : Answer(p)

\* A client waits on what it asked since it runs its release, in that release's
\* words.
PendingReal ==
    \A c \in Client : \A r \in pending[c] :
        r.client = c /\ r.message.variant \in Members(ChunkMessageBody(clientBuild[c]))

\* Ids tell a client's requests apart, and get-or-closer was announced.
AskedReal ==
    /\ \A q, r \in asked : q.client = r.client /\ q.message.id = r.message.id => q = r
    /\ \A r \in asked : r.message.variant = "GetOrCloserRequest" => r.heard >= 4

HeldReal == \A n \in Node : \A size \in held[n] : size <= MAX_CHUNK_SIZE

IInv ==
    /\ TypeOK /\ RequestsReal /\ RepliesReal /\ PendingReal /\ AskedReal /\ HeldReal
    /\ told \subseteq said /\ DroppedForAReason

LEMMA HeardIsANumber ==
    ASSUME NEW h \in {0} \cup Release
    PROVE  h \in Nat
<1>1. h = 0 \/ h \in 1..4
    BY ReleaseAssumption DEF AllReleases
<1>2. \A i \in 1..4 : i \in Nat
    OBVIOUS
<1> QED  BY <1>1, <1>2

LEMMA RequestFields ==
    ASSUME NEW r \in Request
    PROVE  /\ r.client \in Client /\ r.node \in Node /\ r.heard \in {0} \cup Release
           /\ IsMessage(r.message) /\ r.message.variant \in DOMAIN ResponseTo
           /\ r.message.error = "None"
           /\ r.message.content \in Nat /\ r.message.proof \in Nat
<1>1. PICK v \in Asked :
          r.message \in [id : RequestId, variant : {v}, error : {"None"},
                         content : Contents(v), proof : Proofs(v)]
    BY DEF Request
<1>2. Contents(v) \subseteq Nat /\ Proofs(v) \subseteq Nat
    BY SizeAssumption DEF Contents, Proofs
<1>3. IsMessage(r.message)
    BY <1>1 DEF IsMessage
<1> QED  BY <1>1, <1>2, <1>3, AskedAssumption DEF Request

LEMMA ReleasesAreReleases ==
    ASSUME TypeOK
    PROVE  /\ \A c \in Client : clientBuild[c] \in AllReleases
           /\ \A n \in Node : nodeBuild[n] \in AllReleases
BY ReleaseAssumption DEF TypeOK

LEMMA InitHolds == Init => IInv
BY DEF Init, IInv, TypeOK, RequestsReal, RepliesReal, PendingReal, AskedReal, HeldReal,
       DroppedForAReason

LEMMA MeetKeeps ==
    ASSUME IInv, NEW c \in Client, NEW n \in Node, Meet(c, n)
    PROVE  IInv'
<1>1. /\ UNCHANGED <<clientBuild, nodeBuild, pending, held, requests, replies, asked,
                     said, told, dropped>>
      /\ heard' = [heard EXCEPT ![c][n] = nodeBuild[n]]
    BY DEF Meet, builds, packets, history
<1>2. heard' \in [Client -> [Node -> {0} \cup Release]]
    BY <1>1 DEF IInv, TypeOK
<1>3. TypeOK'
    BY <1>1, <1>2 DEF IInv, TypeOK
<1> QED  BY <1>1, <1>3 DEF IInv, RequestsReal, RepliesReal, Answer, PendingReal,
             AskedReal, HeldReal, DroppedForAReason

LEMMA GiveUpKeeps ==
    ASSUME IInv, NEW c \in Client, GiveUp(c)
    PROVE  IInv'
<1>1. /\ UNCHANGED <<clientBuild, nodeBuild, heard, held, requests, replies, asked,
                     said, told, dropped>>
      /\ \E r \in pending[c] : pending' = [pending EXCEPT ![c] = @ \ {r}]
    BY DEF GiveUp, builds, packets, history
<1>2. /\ pending' \in [Client -> SUBSET asked]
      /\ \A d \in Client : pending'[d] \subseteq pending[d]
    BY <1>1 DEF IInv, TypeOK
<1>3. TypeOK'
    BY <1>1, <1>2 DEF IInv, TypeOK
<1>4. PendingReal'
    BY <1>1, <1>2 DEF IInv, PendingReal
<1> QED  BY <1>1, <1>3, <1>4 DEF IInv, RequestsReal, RepliesReal, Answer,
             AskedReal, HeldReal, DroppedForAReason

LEMMA RestartsKeep ==
    ASSUME IInv, \/ \E c \in Client : RestartClient(c)
                 \/ \E n \in Node : RestartNode(n)
    PROVE  IInv'
<1>1. UNCHANGED <<held, requests, replies, asked, said, told, dropped>>
    BY DEF RestartClient, RestartNode, packets, history
<1>2. /\ clientBuild' \in [Client -> Release] /\ nodeBuild' \in [Node -> Release]
      /\ heard' \in [Client -> [Node -> {0} \cup Release]]
      /\ pending' \in [Client -> SUBSET asked]
      /\ \A d \in Client : /\ pending'[d] \subseteq pending[d]
                           /\ pending'[d] = {} \/ clientBuild'[d] = clientBuild[d]
  <2>1. CASE \E c \in Client : RestartClient(c)
    BY <2>1 DEF RestartClient, IInv, TypeOK
  <2>2. CASE \E n \in Node : RestartNode(n)
    BY <2>2 DEF RestartNode, IInv, TypeOK
  <2> QED  BY <2>1, <2>2
<1>3. TypeOK'
    BY <1>1, <1>2 DEF IInv, TypeOK
<1>4. PendingReal'
    BY <1>1, <1>2 DEF IInv, PendingReal
<1> QED  BY <1>1, <1>3, <1>4 DEF IInv, RequestsReal, RepliesReal, Answer,
             AskedReal, HeldReal, DroppedForAReason

LEMMA LoseKeeps ==
    ASSUME IInv, Lose
    PROVE  IInv'
<1>1. /\ UNCHANGED <<clientBuild, nodeBuild, heard, pending, held, asked,
                     said, told, dropped>>
      /\ requests' \subseteq requests /\ replies' \subseteq replies
    BY DEF Lose, builds, history
<1>2. TypeOK'
    BY <1>1 DEF IInv, TypeOK
<1> QED  BY <1>1, <1>2 DEF IInv, RequestsReal, RepliesReal, Answer, PendingReal,
             AskedReal, HeldReal, DroppedForAReason

LEMMA AskKeeps ==
    ASSUME IInv, NEW c \in Client, Ask(c)
    PROVE  IInv'
<1>1. PICK r \in Request :
          /\ r.client = c /\ r.heard = heard[c][r.node]
          /\ \A q \in asked : q.client = c => q.message.id # r.message.id
          /\ r.message.variant \in Members(ChunkMessageBody(clientBuild[c]))
          /\ r.message.variant = "GetOrCloserRequest" =>
                 advertises_get_or_closer(UserAgent(r.heard))
          /\ asked' = asked \cup {r}
          /\ pending' = [pending EXCEPT ![c] = @ \cup {r}]
          /\ requests' = requests \cup
                 {[re |-> r, data |-> encode(clientBuild[c], r.message)]}
    BY DEF Ask
<1>2. UNCHANGED <<clientBuild, nodeBuild, heard, held, replies, said, told, dropped>>
    BY DEF Ask, builds
<1> DEFINE packet == [re |-> r, data |-> encode(clientBuild[c], r.message)]
<1>3. packet.re = r /\ packet.data = encode(clientBuild[c], r.message)
    OBVIOUS
<1> HIDE DEF packet
<1>4. requests' = requests \cup {packet}
    BY <1>1 DEF packet
<1>5. /\ pending' \in [Client -> SUBSET asked']
      /\ \A d \in Client : pending'[d] = IF d = c THEN pending[c] \cup {r} ELSE pending[d]
    BY <1>1 DEF IInv, TypeOK
<1>6. TypeOK'
  <2>1. \A p \in requests' \cup replies' : p.re \in asked'
    BY <1>1, <1>2, <1>3, <1>4 DEF IInv, TypeOK
  <2>2. \A d \in dropped' : d.request \in asked' /\ d.build \in Release
    BY <1>1, <1>2 DEF IInv, TypeOK
  <2>3. asked' \subseteq Request
    BY <1>1 DEF IInv, TypeOK
  <2> QED  BY <1>2, <1>5, <2>1, <2>2, <2>3 DEF IInv, TypeOK
<1>7. RequestsReal'
  <2>1. clientBuild[c] \in AllReleases /\ Known(clientBuild[c], r.message)
    BY <1>1, RequestFields, ReleasesAreReleases DEF Known, IInv
  <2> QED  BY <1>3, <1>4, <2>1 DEF IInv, RequestsReal
<1>8. PendingReal'
  <2> SUFFICES ASSUME NEW d \in Client, NEW q \in pending'[d]
               PROVE  /\ q.client = d
                      /\ q.message.variant \in Members(ChunkMessageBody(clientBuild[d]))
    BY <1>2 DEF PendingReal
  <2>1. q \in pending[d] \/ (d = c /\ q = r)
    BY <1>5
  <2> QED  BY <1>1, <2>1 DEF IInv, PendingReal
<1>9. AskedReal'
  <2>1. r.message.variant = "GetOrCloserRequest" => r.heard >= 4
    BY <1>1 DEF advertises_get_or_closer, UserAgent, GET_OR_CLOSER_AGENT_TOKEN
  <2>2. \A p, q \in asked' :
            p.client = q.client /\ p.message.id = q.message.id => p = q
    BY <1>1 DEF IInv, AskedReal
  <2> QED  BY <1>1, <2>1, <2>2 DEF IInv, AskedReal
<1> QED  BY <1>2, <1>6, <1>7, <1>8, <1>9 DEF IInv, RepliesReal, Answer, HeldReal,
             DroppedForAReason

\* What a node reads of a request is the request, and a client what was said.
LEMMA RequestIsRead ==
    ASSUME IInv, NEW p \in requests, NEW b \in AllReleases
    PROVE  LET m == p.re.message
           IN  decode(b, p.data) =
                   IF Size(m) > MAX_WIRE_MESSAGE_SIZE
                      \/ m.variant \notin Members(ChunkMessageBody(b))
                   THEN {} ELSE {m}
<1>1. p.re \in Request
    BY DEF IInv, TypeOK
<1>2. IsMessage(p.re.message) /\ p.re.message.error = "None"
    BY <1>1, RequestFields
<1>3. PICK a \in AllReleases : Known(a, p.re.message) /\ p.data = encode(a, p.re.message)
    BY DEF IInv, RequestsReal
<1>4. decode(b, p.data)
      = IF Size(p.re.message) > MAX_WIRE_MESSAGE_SIZE \/ ~ Known(b, p.re.message)
        THEN {} ELSE {p.re.message}
    BY <1>2, <1>3, ReadsWhatWasWritten
<1>5. Known(b, p.re.message) <=> p.re.message.variant \in Members(ChunkMessageBody(b))
    BY <1>2 DEF Known
<1> QED  BY <1>4, <1>5

LEMMA ReplyIsRead ==
    ASSUME IInv, NEW p \in replies, NEW b \in AllReleases
    PROVE  /\ decode(b, p.data) \subseteq {p.of}
           /\ Known(b, p.of) => decode(b, p.data) = {p.of}
<1>1. IsMessage(p.of) /\ ~ (Size(p.of) > MAX_WIRE_MESSAGE_SIZE)
    BY DEF IInv, RepliesReal, Answer
<1>2. PICK a \in AllReleases : Known(a, p.of) /\ p.data = encode(a, p.of)
    BY DEF IInv, RepliesReal, Answer
<1>3. decode(b, p.data)
      = IF Size(p.of) > MAX_WIRE_MESSAGE_SIZE \/ ~ Known(b, p.of) THEN {} ELSE {p.of}
    BY <1>1, <1>2, ReadsWhatWasWritten
<1> QED  BY <1>1, <1>3

\* A client takes a reply for that to the request it is the reply to, or for none.
LEMMA TakenIsSaid ==
    ASSUME IInv, NEW c \in Client, NEW p \in replies, p.re.client = c
    PROVE  Takes(c, p) \subseteq
               {[request |-> p.re,
                 reply |-> [variant |-> p.of.variant, error |-> p.of.error]]}
<1>1. SUFFICES ASSUME NEW t \in Takes(c, p)
               PROVE  t = [request |-> p.re,
                           reply |-> [variant |-> p.of.variant, error |-> p.of.error]]
    OBVIOUS
<1>2. PICK r \in pending[c], m \in decode(clientBuild[c], p.data) :
          /\ r.message.id = m.id
          /\ t = [request |-> r, reply |-> [variant |-> m.variant, error |-> m.error]]
    BY DEF Takes
<1>3. m = p.of
    BY ReplyIsRead, ReleasesAreReleases DEF IInv
<1>4. m.id = p.re.message.id
    BY <1>3 DEF IInv, RepliesReal, Answer
<1>5. r \in asked /\ p.re \in asked /\ r.client = c
    BY DEF IInv, TypeOK, PendingReal
<1>6. r = p.re
    BY <1>2, <1>4, <1>5 DEF IInv, AskedReal
<1> QED  BY <1>2, <1>3, <1>6

LEMMA HearKeeps ==
    ASSUME IInv, NEW c \in Client, Hear(c)
    PROVE  IInv'
<1>1. PICK p \in replies :
          /\ p.re.client = c
          /\ replies' = replies \ {p}
          /\ told' = told \cup Takes(c, p)
          /\ pending' = [pending EXCEPT ![c] = @ \ {t.request : t \in Takes(c, p)}]
    BY DEF Hear
<1>2. UNCHANGED <<clientBuild, nodeBuild, heard, held, requests, asked, said, dropped>>
    BY DEF Hear, builds
<1>3. Takes(c, p) \subseteq said
    BY <1>1, TakenIsSaid DEF IInv, RepliesReal, Answer
<1>4. told' \subseteq said
    BY <1>1, <1>3 DEF IInv
<1>5. /\ pending' \in [Client -> SUBSET asked]
      /\ \A d \in Client : pending'[d] \subseteq pending[d]
    BY <1>1 DEF IInv, TypeOK
<1>6. TypeOK'
    BY <1>1, <1>2, <1>4, <1>5 DEF IInv, TypeOK
<1>7. PendingReal'
    BY <1>2, <1>5 DEF IInv, PendingReal
<1> QED  BY <1>1, <1>2, <1>4, <1>6, <1>7 DEF IInv, RequestsReal, RepliesReal, Answer,
             AskedReal, HeldReal, DroppedForAReason

LEMMA DropKeeps ==
    ASSUME IInv, NEW n \in Node, Drop(n)
    PROVE  IInv'
<1>1. PICK p \in requests :
          /\ requests' = requests \ {p} /\ decode(nodeBuild[n], p.data) = {}
          /\ dropped' = dropped \cup {[request |-> p.re, build |-> nodeBuild[n]]}
    BY DEF Drop, Arrives
<1>2. UNCHANGED <<clientBuild, nodeBuild, heard, pending, held, replies, asked, said, told>>
    BY DEF Drop, builds
<1> DEFINE m == p.re.message
           b == nodeBuild[n]
<1>3. b \in AllReleases /\ b \in Release /\ p.re \in asked /\ p.re \in Request
    BY ReleasesAreReleases DEF IInv, TypeOK
<1>4. Size(m) > MAX_WIRE_MESSAGE_SIZE \/ m.variant \notin Members(ChunkMessageBody(b))
    BY <1>1, <1>3, RequestIsRead
<1>5. m.content \in Nat /\ m.proof \in Nat
    BY <1>3, RequestFields
<1>6. Size(m) > MAX_WIRE_MESSAGE_SIZE =>
          \/ m.content > MAX_CHUNK_SIZE
          \/ m.proof > MAX_WIRE_MESSAGE_SIZE - MAX_CHUNK_SIZE - Envelope
    BY <1>5, SizeAssumption DEF Size
<1>7. ASSUME m.variant = "GetOrCloserRequest",
             m.variant \notin Members(ChunkMessageBody(b))
      PROVE  b < p.re.heard
  <2>1. "GetOrCloserRequest" \in Members(ChunkMessageBody(4))
    BY MembersOfBody DEF AllNames, New4
  <2>2. p.re.heard >= 4
    BY <1>3, <1>7 DEF IInv, AskedReal
  <2>3. p.re.heard \in Nat
    BY <1>3, RequestFields, HeardIsANumber
  <2> QED  BY <1>3, <1>7, <2>1, <2>2, <2>3 DEF AllReleases
<1>8. TypeOK'
    BY <1>1, <1>2, <1>3 DEF IInv, TypeOK
<1>9. DroppedForAReason'
  <2> SUFFICES ASSUME NEW d \in dropped'
               PROVE  LET q == d.request.message
                      IN  \/ q.content > MAX_CHUNK_SIZE
                          \/ q.proof > MAX_WIRE_MESSAGE_SIZE - MAX_CHUNK_SIZE - Envelope
                          \/ /\ q.variant \notin Members(ChunkMessageBody(d.build))
                             /\ q.variant = "GetOrCloserRequest" => d.build < d.request.heard
    BY DEF DroppedForAReason
  <2>1. CASE d \in dropped
    BY <2>1 DEF IInv, DroppedForAReason
  <2>2. CASE d = [request |-> p.re, build |-> b]
    <3>1. d.request = p.re /\ d.build = b
      BY <2>2
    <3> QED  BY <1>4, <1>6, <1>7, <3>1
  <2> QED  BY <1>1, <2>1, <2>2
<1> QED  BY <1>1, <1>2, <1>8, <1>9 DEF IInv, RequestsReal, RepliesReal, Answer,
             PendingReal, AskedReal, HeldReal

\* What a node says to a request that it could read, an error or what it did.
LEMMA SayKeeps ==
    ASSUME IInv, NEW n \in Node, NEW p \in requests, NEW m \in decode(nodeBuild[n], p.data),
           m.variant \in DOMAIN ResponseTo, NEW error, NEW content \in Nat,
           error \in {"None"} \cup Refusals(nodeBuild[n], m.variant),
           content <= MAX_CHUNK_SIZE,
           Say(n, p, m, error, content), requests' = requests \ {p},
           UNCHANGED <<clientBuild, nodeBuild, heard, pending, asked, told, dropped>>
    PROVE  /\ requests' \subseteq requests /\ said \subseteq said'
           /\ \A q \in replies' : q.re \in asked
           /\ said' \subseteq Saying /\ RepliesReal'
           /\ p.re \in Request /\ p.re \in asked
           /\ said' = said \cup
                  {[request |-> p.re,
                    reply |-> [variant |-> ResponseTo[p.re.message.variant],
                               error |-> error]]}
<1> DEFINE b == nodeBuild[n]
           reply == Message(m.id, ResponseTo[m.variant], error, content, 0)
           packet == [re |-> p.re, of |-> reply, data |-> encode(b, reply)]
           saying == [request |-> p.re, reply |-> [variant |-> reply.variant, error |-> error]]
<1>1. b \in AllReleases /\ p.re \in asked /\ p.re \in Request
    BY ReleasesAreReleases DEF IInv, TypeOK
<1>2. m = p.re.message /\ m.variant \in Members(ChunkMessageBody(b))
    BY <1>1, RequestIsRead
<1>3. /\ IsMessage(reply) /\ reply.id = m.id /\ reply.variant = ResponseTo[m.variant]
      /\ reply.error = error /\ reply.content = content /\ reply.proof = 0
    BY DEF Message, IsMessage
<1>4. /\ packet.re = p.re /\ packet.of = reply /\ packet.data = encode(b, reply)
      /\ saying = [request |-> p.re, reply |-> [variant |-> reply.variant, error |-> error]]
    OBVIOUS
<1>5. replies' = replies \cup {packet} /\ said' = said \cup {saying}
    BY DEF Say
<1> HIDE DEF reply, packet, saying, b
<1>6. Known(b, reply)
    BY <1>1, <1>2, <1>3, AnswersAreKnown DEF Known, b
<1>7. ~ (Size(reply) > MAX_WIRE_MESSAGE_SIZE)
    BY <1>3, SizeAssumption DEF Size
<1>8. saying \in Saying
  <2>1. p.re.message.variant \in DOMAIN ResponseTo
    BY <1>1, RequestFields
  <2>2. 4 \in AllReleases
    BY DEF AllReleases
  <2>3. m.variant \in Members(ChunkMessageBody(4))
    BY <2>1, <1>2, ResponseFields, MembersOfBody
  <2>4. /\ reply.variant \in Members(ChunkMessageBody(4))
        /\ error \in {"None"} \cup Members(ProtocolError(4))
    BY <1>1, <1>3, <2>2, <2>3, AnswersAreKnown DEF b
  <2> QED  BY <1>1, <1>4, <2>4 DEF Saying
<1>9. said' \subseteq Saying
    BY <1>5, <1>8 DEF IInv, TypeOK
<1>10. RepliesReal'
  <2>1. ASSUME NEW q \in replies' PROVE Answer(q)'
    <3>1. CASE q \in replies
      BY <1>5, <3>1 DEF IInv, RepliesReal, Answer
    <3>2. CASE q = packet
      <4>1. [request |-> q.re, reply |-> [variant |-> q.of.variant, error |-> q.of.error]]
            \in said'
        BY <1>3, <1>4, <1>5, <3>2
      <4>2. \E a \in AllReleases :
                q.of.error \in {"None"} \cup Refusals(a, q.re.message.variant)
        BY <1>1, <1>2, <1>3, <1>4, <3>2 DEF b
      <4> QED  BY <1>1, <1>2, <1>3, <1>4, <1>6, <1>7, <3>2, <4>1, <4>2 DEF Answer
    <3> QED  BY <1>5, <3>1, <3>2
  <2> QED  BY <2>1 DEF RepliesReal
<1>11. \A q \in replies' : q.re \in asked
    BY <1>1, <1>4, <1>5 DEF IInv, TypeOK
<1> QED  BY <1>1, <1>2, <1>3, <1>4, <1>5, <1>9, <1>10, <1>11

LEMMA RefuseKeeps ==
    ASSUME IInv, NEW n \in Node, Refuse(n)
    PROVE  IInv'
<1>1. PICK p \in requests : \E m \in decode(nodeBuild[n], p.data) :
          \E e \in Refusals(nodeBuild[n], m.variant) :
              /\ requests' = requests \ {p} /\ m.variant \in DOMAIN ResponseTo
              /\ Say(n, p, m, e, 0)
    BY DEF Refuse, Arrives
<1>2. PICK m \in decode(nodeBuild[n], p.data) : \E e \in Refusals(nodeBuild[n], m.variant) :
          /\ requests' = requests \ {p} /\ m.variant \in DOMAIN ResponseTo
          /\ Say(n, p, m, e, 0)
    BY <1>1
<1>3. PICK e \in Refusals(nodeBuild[n], m.variant) :
          /\ requests' = requests \ {p} /\ m.variant \in DOMAIN ResponseTo
          /\ Say(n, p, m, e, 0)
    BY <1>2
<1>4. UNCHANGED <<clientBuild, nodeBuild, heard, pending, held, asked, told, dropped>>
    BY DEF Refuse, builds
<1>5. 0 \in Nat /\ 0 <= MAX_CHUNK_SIZE
    BY SizeAssumption
<1>6. /\ requests' \subseteq requests /\ said \subseteq said'
      /\ \A q \in replies' : q.re \in asked
      /\ said' \subseteq Saying /\ RepliesReal'
    BY <1>3, <1>4, <1>5, SayKeeps
<1>7. TypeOK'
    BY <1>4, <1>6 DEF IInv, TypeOK
<1> QED  BY <1>4, <1>6, <1>7 DEF IInv, RequestsReal, PendingReal, AskedReal, HeldReal,
             DroppedForAReason

\* What a node does with a request, and what it then says.
LEMMA Served ==
    ASSUME IInv, NEW n \in Node, Serve(n)
    PROVE  \E p \in requests : \E m \in decode(nodeBuild[n], p.data) :
           \E content \in Nat :
               /\ requests' = requests \ {p} /\ m.variant \in DOMAIN ResponseTo
               /\ content <= MAX_CHUNK_SIZE /\ Say(n, p, m, "None", content)
               /\ held' = held \/ /\ held' = [held EXCEPT ![n] = @ \cup {m.content}]
                                  /\ m.variant = "PutRequest"
                                  /\ m.content <= MAX_CHUNK_SIZE
<1>1. PICK p \in requests : \E m \in decode(nodeBuild[n], p.data) :
          /\ requests' = requests \ {p}
          /\ \/ /\ m.variant = "PutRequest" /\ m.content <= MAX_CHUNK_SIZE
                /\ held' \in {held, [held EXCEPT ![n] = @ \cup {m.content}]}
                /\ Say(n, p, m, "None", 0)
             \/ /\ m.variant \in {"GetRequest", "GetOrCloserRequest"}
                /\ \E content \in {0} \cup held[n] : Say(n, p, m, "None", content)
                /\ UNCHANGED held
             \/ /\ m.variant \in DOMAIN ResponseTo
                /\ Say(n, p, m, "None", 0)
                /\ UNCHANGED held
    BY DEF Serve, Arrives
<1>2. PICK m \in decode(nodeBuild[n], p.data) :
          /\ requests' = requests \ {p}
          /\ \/ /\ m.variant = "PutRequest" /\ m.content <= MAX_CHUNK_SIZE
                /\ held' \in {held, [held EXCEPT ![n] = @ \cup {m.content}]}
                /\ Say(n, p, m, "None", 0)
             \/ /\ m.variant \in {"GetRequest", "GetOrCloserRequest"}
                /\ \E content \in {0} \cup held[n] : Say(n, p, m, "None", content)
                /\ UNCHANGED held
             \/ /\ m.variant \in DOMAIN ResponseTo
                /\ Say(n, p, m, "None", 0)
                /\ UNCHANGED held
    BY <1>1
<1>3. 0 \in Nat /\ 0 <= MAX_CHUNK_SIZE
    BY SizeAssumption
<1>4. {"PutRequest", "GetRequest", "GetOrCloserRequest"} \subseteq DOMAIN ResponseTo
    BY DEF ResponseTo
<1>5. \A content \in {0} \cup held[n] : content \in Nat /\ content <= MAX_CHUNK_SIZE
    BY <1>3, SizeAssumption DEF IInv, TypeOK, HeldReal
<1>6. \E content \in Nat :
          /\ m.variant \in DOMAIN ResponseTo
          /\ content <= MAX_CHUNK_SIZE /\ Say(n, p, m, "None", content)
          /\ held' = held \/ /\ held' = [held EXCEPT ![n] = @ \cup {m.content}]
                             /\ m.variant = "PutRequest"
                             /\ m.content <= MAX_CHUNK_SIZE
  <2>1. CASE /\ m.variant = "PutRequest" /\ m.content <= MAX_CHUNK_SIZE
             /\ held' \in {held, [held EXCEPT ![n] = @ \cup {m.content}]}
             /\ Say(n, p, m, "None", 0)
    BY <1>3, <1>4, <2>1
  <2>2. CASE /\ m.variant \in {"GetRequest", "GetOrCloserRequest"}
             /\ \E content \in {0} \cup held[n] : Say(n, p, m, "None", content)
             /\ UNCHANGED held
    <3>1. PICK content \in {0} \cup held[n] : Say(n, p, m, "None", content)
      BY <2>2
    <3> QED  BY <1>4, <1>5, <2>2, <3>1
  <2>3. CASE m.variant \in DOMAIN ResponseTo /\ Say(n, p, m, "None", 0) /\ UNCHANGED held
    BY <1>3, <2>3
  <2> QED  BY <1>2, <2>1, <2>2, <2>3
<1> QED  BY <1>2, <1>6

LEMMA ServeKeeps ==
    ASSUME IInv, NEW n \in Node, Serve(n)
    PROVE  IInv'
<1> DEFINE Did(p, m, content) ==
        /\ requests' = requests \ {p} /\ m.variant \in DOMAIN ResponseTo
        /\ content <= MAX_CHUNK_SIZE /\ Say(n, p, m, "None", content)
        /\ held' = held \/ /\ held' = [held EXCEPT ![n] = @ \cup {m.content}]
                           /\ m.variant = "PutRequest"
                           /\ m.content <= MAX_CHUNK_SIZE
<1>1. PICK p \in requests : \E m \in decode(nodeBuild[n], p.data) :
          \E content \in Nat : Did(p, m, content)
    BY Served
<1>2. PICK m \in decode(nodeBuild[n], p.data) : \E content \in Nat : Did(p, m, content)
    BY <1>1
<1>3. PICK content \in Nat : Did(p, m, content)
    BY <1>2
<1>4. UNCHANGED <<clientBuild, nodeBuild, heard, pending, asked, told, dropped>>
    BY DEF Serve, builds
<1>5. /\ requests' \subseteq requests /\ said \subseteq said'
      /\ \A q \in replies' : q.re \in asked
      /\ said' \subseteq Saying /\ RepliesReal'
    BY <1>3, <1>4, SayKeeps
<1>6. m = p.re.message /\ p.re \in Request
  <2>1. nodeBuild[n] \in AllReleases
    BY ReleasesAreReleases DEF IInv
  <2>2. m = p.re.message
    BY <2>1, RequestIsRead
  <2> QED  BY <2>2 DEF IInv, TypeOK
<1>7. m.variant = "PutRequest" => m.content \in ContentSize
    BY <1>6 DEF Request, Contents
<1>8. held' \in [Node -> SUBSET ContentSize] /\ HeldReal'
  <2>1. CASE held' = held
    BY <2>1 DEF IInv, TypeOK, HeldReal
  <2>2. CASE /\ held' = [held EXCEPT ![n] = @ \cup {m.content}]
             /\ m.content \in ContentSize /\ m.content <= MAX_CHUNK_SIZE
    BY <2>2 DEF IInv, TypeOK, HeldReal
  <2> QED  BY <1>3, <1>7, <2>1, <2>2
<1>9. TypeOK'
    BY <1>4, <1>5, <1>8 DEF IInv, TypeOK
<1> QED  BY <1>4, <1>5, <1>8, <1>9 DEF IInv, RequestsReal, PendingReal, AskedReal,
             DroppedForAReason

LEMMA NextKeeps == IInv /\ [Next]_vars => IInv'
<1> SUFFICES ASSUME IInv, [Next]_vars PROVE IInv'
    OBVIOUS
<1>1. CASE \E c \in Client : Ask(c)
    BY <1>1, AskKeeps
<1>2. CASE \E c \in Client : Hear(c)
    BY <1>2, HearKeeps
<1>3. CASE \E c \in Client : GiveUp(c)
    BY <1>3, GiveUpKeeps
<1>4. CASE (\E c \in Client : RestartClient(c)) \/ (\E n \in Node : RestartNode(n))
    BY <1>4, RestartsKeep
<1>5. CASE \E c \in Client, n \in Node : Meet(c, n)
    BY <1>5, MeetKeeps
<1>6. CASE \E n \in Node : Drop(n)
    BY <1>6, DropKeeps
<1>7. CASE \E n \in Node : Refuse(n)
    BY <1>7, RefuseKeeps
<1>8. CASE \E n \in Node : Serve(n)
    BY <1>8, ServeKeeps
<1>9. CASE Lose
    BY <1>9, LoseKeeps
<1>10. CASE UNCHANGED vars
    BY <1>10 DEF vars, IInv, TypeOK, RequestsReal, RepliesReal, Answer, PendingReal,
                 AskedReal, HeldReal, DroppedForAReason
<1> QED  BY <1>1, <1>2, <1>3, <1>4, <1>5, <1>6, <1>7, <1>8, <1>9, <1>10 DEF Next

-----------------------------------------------------------------------------
(* Theorems *)

\* Every reachable state satisfies the inductive invariant.
THEOREM Invariance == Spec => []IInv
BY InitHolds, NextKeeps, PTL DEF Spec

\* Every variable keeps its type.
THEOREM TypeCorrect == Spec => []TypeOK
<1>1. IInv => TypeOK
    BY DEF IInv
<1> QED  BY <1>1, Invariance, PTL

\* Whichever releases write and read, what is read is what was written.
THEOREM NeverMisread == Spec => []NothingIsMisread
<1>1. IInv => NothingIsMisread
  <2> SUFFICES ASSUME IInv, NEW b \in Release
               PROVE  /\ \A p \in requests : decode(b, p.data) \subseteq {p.re.message}
                      /\ \A p \in replies : decode(b, p.data) \subseteq {p.of}
    BY DEF NothingIsMisread
  <2>1. b \in AllReleases
    BY ReleaseAssumption
  <2> QED  BY <2>1, RequestIsRead, ReplyIsRead
<1> QED  BY <1>1, Invariance, PTL

\* A client that still waits can read the reply, whatever releases the client
\* and the node run.
THEOREM AlwaysUnderstood == Spec => []RepliesAreUnderstood
<1>1. IInv => RepliesAreUnderstood
  <2> SUFFICES ASSUME IInv, NEW p \in replies, p.re \in pending[p.re.client]
               PROVE  decode(clientBuild[p.re.client], p.data) = {p.of}
    BY DEF RepliesAreUnderstood
  <2> DEFINE b == clientBuild[p.re.client]
             v == p.re.message.variant
  <2>1. p.re \in Request /\ p.re.client \in Client /\ v \in DOMAIN ResponseTo
    BY RequestFields DEF IInv, TypeOK
  <2>2. b \in AllReleases
    BY <2>1, ReleasesAreReleases DEF IInv
  <2>3. v \in Members(ChunkMessageBody(b))
    BY <2>1 DEF IInv, PendingReal
  <2>4. /\ p.of.variant = ResponseTo[v]
        /\ \E n \in AllReleases : p.of.error \in {"None"} \cup Refusals(n, v)
    BY DEF IInv, RepliesReal, Answer
  <2> HIDE DEF b, v
  <2>5. Known(b, p.of)
    BY <2>1, <2>2, <2>3, <2>4, AnswersAreKnown DEF Known
  <2> QED  BY <2>2, <2>5, ReplyIsRead DEF b
<1> QED  BY <1>1, Invariance, PTL

\* No node drops a request of legal size that it could know, nor a get-or-closer
\* request unless it has gone back to an earlier release.
THEOREM OnlyDroppedForAReason == Spec => []DroppedForAReason
<1>1. IInv => DroppedForAReason
    BY DEF IInv
<1> QED  BY <1>1, Invariance, PTL

LEMMA RefusalsOfLatest ==
    ASSUME NEW b \in AllReleases, NEW v
    PROVE  Refusals(b, v) \subseteq Refusals(4, v)
<1>1. Members(ProtocolError(b)) \subseteq Members(ProtocolError(4))
  <2>1. Members(FirstErrors) \subseteq Members(Error2)
    BY Errors, MembersOfAppended DEF Error2
  <2>2. 4 \in AllReleases
    BY DEF AllReleases
  <2> QED  BY <2>1, <2>2, ErrorOfRelease
<1> QED  BY <1>1 DEF Refusals

Kinds == [r \in Request |->
             {[variant |-> ResponseTo[r.message.variant], error |-> e] :
                 e \in {"None"} \cup Refusals(4, r.message.variant)}]

LEMMA SayIsASaying ==
    ASSUME IInv, NEW n \in Node, NEW p \in requests, NEW m \in decode(nodeBuild[n], p.data),
           NEW error, error \in {"None"} \cup Refusals(nodeBuild[n], m.variant),
           NEW content, Say(n, p, m, error, content), UNCHANGED <<asked, told>>
    PROVE  Types!Next
<1> DEFINE v == p.re.message.variant
           reply == [variant |-> ResponseTo[v], error |-> error]
<1>1. nodeBuild[n] \in AllReleases /\ p.re \in asked /\ p.re \in Request
    BY ReleasesAreReleases DEF IInv, TypeOK
<1>2. m = p.re.message
    BY <1>1, RequestIsRead
<1>3. said' = said \cup {[request |-> p.re, reply |-> reply]}
    BY <1>2 DEF Say, Message
<1>4. error \in {"None"} \cup Refusals(4, v)
    BY <1>1, <1>2, RefusalsOfLatest
<1>5. reply \in Kinds[p.re]
    BY <1>1, <1>4 DEF Kinds
<1> HIDE DEF reply
<1>6. Types!Say(p.re)
    BY <1>1, <1>3, <1>5 DEF Types!Say, Kinds
<1> QED  BY <1>1, <1>6 DEF Types!Next

\* Every step is one of the typed messages', or no step of theirs.
LEMMA StepsAreTyped == IInv /\ [Next]_vars => [Types!Next]_Types!vars
<1> SUFFICES ASSUME IInv, [Next]_vars PROVE [Types!Next]_Types!vars
    OBVIOUS
<1>1. CASE \E c \in Client : Ask(c)
  <2>1. \E r \in Request : asked' = asked \cup {r} /\ UNCHANGED <<said, told>>
    BY <1>1 DEF Ask
  <2> QED  BY <2>1 DEF Types!Next, Types!Ask
<1>2. CASE \E c \in Client : Hear(c)
  <2>1. PICK c \in Client : Hear(c)
    BY <1>2
  <2>2. PICK p \in replies : p.re.client = c /\ told' = told \cup Takes(c, p)
    BY <2>1 DEF Hear
  <2>3. UNCHANGED <<asked, said>>
    BY <2>1 DEF Hear
  <2> DEFINE s == [request |-> p.re,
                   reply |-> [variant |-> p.of.variant, error |-> p.of.error]]
  <2>4. Takes(c, p) \subseteq {s}
    BY <2>2, TakenIsSaid
  <2>5. s \in said
    BY DEF IInv, RepliesReal, Answer
  <2> HIDE DEF s
  <2>6. told' = told \/ told' = told \cup {s}
    BY <2>2, <2>4
  <2> QED  BY <2>3, <2>5, <2>6 DEF Types!Next, Types!Tell, Types!vars
<1>3. CASE \E n \in Node : Refuse(n)
  <2>1. PICK n \in Node : Refuse(n)
    BY <1>3
  <2>2. PICK p \in requests : \E m \in decode(nodeBuild[n], p.data) :
            \E e \in Refusals(nodeBuild[n], m.variant) : Say(n, p, m, e, 0)
    BY <2>1 DEF Refuse, Arrives
  <2>3. UNCHANGED <<asked, told>>
    BY <2>1 DEF Refuse
  <2> QED  BY <2>2, <2>3, SayIsASaying
<1>4. CASE \E n \in Node : Serve(n)
  <2>1. PICK n \in Node : Serve(n)
    BY <1>4
  <2>2. PICK p \in requests : \E m \in decode(nodeBuild[n], p.data) :
            \E content \in Nat : Say(n, p, m, "None", content)
    BY <2>1, Served
  <2>3. UNCHANGED <<asked, told>>
    BY <2>1 DEF Serve
  <2> QED  BY <2>2, <2>3, SayIsASaying
<1>5. CASE UNCHANGED <<asked, said, told>>
    BY <1>5 DEF Types!vars
<1>6. CASE (\E c \in Client : GiveUp(c) \/ RestartClient(c))
           \/ (\E c \in Client, n \in Node : Meet(c, n))
           \/ (\E n \in Node : RestartNode(n) \/ Drop(n)) \/ Lose \/ UNCHANGED vars
    BY <1>5, <1>6 DEF GiveUp, RestartClient, Meet, RestartNode, Drop, Lose, vars, history
<1> QED  BY <1>1, <1>2, <1>3, <1>4, <1>6 DEF Next

\* Messages between releases implement the typed messages: through upgrades and
\* downgrades of both sides, lost and late messages, what a client is told of a
\* request is what the node said to it.
THEOREM ImplementsTypes == Spec => KeepsTypes
<1>1. Init => Types!Init
    BY DEF Init, Types!Init
<1> QED  BY <1>1, Invariance, StepsAreTyped, PTL DEF Spec, KeepsTypes, Types!Spec

=============================================================================
