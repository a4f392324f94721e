----------------------- MODULE PointerNetworkProofs -----------------------
(***************************************************************************)
(* PointerNetwork for any devices, nodes, keys, counters and bounds.  The   *)
(* inductive invariant IInv says what a node knows: everything it holds or  *)
(* has parsed came off the wire, and every answer it gave is still covered  *)
(* by what it holds, in the merge order of its release.                     *)
(***************************************************************************)
EXTENDS PointerNetwork, PointerRecordProofs

-----------------------------------------------------------------------------
(* Records are well formed *)

LEMMA BytesFields ==
    \A b \in Bytes : /\ b.shape \in Shape /\ b.body \in Body
                     /\ b.sig \in Signature /\ b.sig.over \in Body
                     /\ b.sig.signer \in Owner
BY DEF Bytes, Signature

LEMMA SignIsBytes ==
    \A key, owner \in Owner, c \in Counter, t \in Target, x \in Nonce :
        Sign(key, owner, c, t, x) \in Bytes
BY DEF Sign, Bytes, Body, Signature, Shape, Version, encode_body,
       POINTER_FORMAT_VERSION

LEMMA AddressIsName == \A s \in Body : pointer_address(s) \in Name
BY BodyFields, AddressAssumption DEF pointer_address

\* What Issue adds to the wire, whatever operation it is called from.
LEMMA IssueSends ==
    ASSUME TypeOK, NEW d \in Device, NEW owner \in Owner, NEW c \in Counter,
           NEW t \in Target, Issue(d, owner, c, t)
    PROVE  \E p \in Bytes :
               /\ FromBytes(p)
               /\ p.body = encode_body(POINTER_FORMAT_VERSION, owner, c, t)
               /\ p.sig.over = p.body /\ p.sig.signer = KeyOf[d]
               /\ wire' = wire \cup {p}
               /\ latest' = [latest EXCEPT ![d] = p]
               /\ UNCHANGED <<parsed, held, replies>>
<1>1. PICK x \in Nonce : LET p == Sign(KeyOf[d], owner, c, t, x)
                         IN  /\ FromBytes(p)
                             /\ Send(p)
                             /\ latest' = [latest EXCEPT ![d] = p]
    BY DEF Issue
<1> DEFINE p == Sign(KeyOf[d], owner, c, t, x)
<1>2. p \in Bytes
    BY SignIsBytes, KeyAssumption
<1>3. /\ p.body = encode_body(POINTER_FORMAT_VERSION, owner, c, t)
      /\ p.sig.over = p.body /\ p.sig.signer = KeyOf[d]
    BY DEF Sign
<1> QED  BY <1>1, <1>2, <1>3 DEF Send

\* Every device operation puts one genuine record on the wire, or only loads.
LEMMA DeviceStep ==
    ASSUME TypeOK, NEW d \in Device,
           Create(d) \/ Update(d) \/ Finalize(d) \/ TransferTo(d) \/ SignRaw(d)
    PROVE  \E p \in Bytes :
               /\ FromBytes(p)
               /\ p.sig.over = p.body /\ p.sig.signer = KeyOf[d]
               /\ wire' = wire \cup {p}
               /\ latest' = [latest EXCEPT ![d] = p]
               /\ UNCHANGED <<parsed, held, replies>>
<1>1. ASSUME NEW owner \in Owner, NEW c \in Counter, NEW t \in Target,
             Issue(d, owner, c, t)
      PROVE  \E p \in Bytes :
               /\ FromBytes(p)
               /\ p.sig.over = p.body /\ p.sig.signer = KeyOf[d]
               /\ wire' = wire \cup {p}
               /\ latest' = [latest EXCEPT ![d] = p]
               /\ UNCHANGED <<parsed, held, replies>>
    BY <1>1, IssueSends
<1>2. 0 \in Counter /\ FinalCounter \in Counter /\ KeyOf[d] \in Owner
    BY CounterAssumption, KeyAssumption DEF Counter
<1>3. latest[d] # NoPointer => latest[d].body.owner \in Owner
    BY BytesFields, BodyFields DEF TypeOK
<1>4. CASE Create(d)
    BY <1>1, <1>2, <1>4 DEF Create
<1>5. CASE Update(d)
    BY <1>1, <1>3, <1>5 DEF Update, NextCounters
<1>6. CASE Finalize(d)
    BY <1>1, <1>2, <1>3, <1>6 DEF Finalize, finalize
<1>7. CASE TransferTo(d)
    BY <1>1, <1>2, <1>3, <1>7, RecipientAssumption DEF TransferTo, finalize
<1>8. CASE SignRaw(d)
    BY <1>1, <1>8 DEF SignRaw
<1> QED  BY <1>4, <1>5, <1>6, <1>7, <1>8

-----------------------------------------------------------------------------
(* Type correctness *)

LEMMA InitTypeOK == Init => TypeOK
BY DEF Init, TypeOK

LEMMA DamageType ==
    ASSUME TypeOK, NEW b \in wire, Damage(b)
    PROVE  /\ wire' \subseteq Bytes /\ wire \subseteq wire'
           /\ UNCHANGED <<latest, parsed, held, replies>>
<1>1. PICK f \in Forgery : Send([shape |-> f.shape, body |-> f.body, sig |-> b.sig])
    BY DEF Damage
<1>2. f \in [shape : Shape, body : Body]
    BY ForgeryAssumption
<1>3. [shape |-> f.shape, body |-> f.body, sig |-> b.sig] \in Bytes
    BY <1>2, BytesFields DEF TypeOK, Bytes
<1> QED  BY <1>1, <1>3 DEF Send, TypeOK, Damage

\* What a node holds at the address of a well-formed body.
LEMMA HeldTyped ==
    ASSUME TypeOK, NEW n \in Node, NEW s \in Body
    PROVE  /\ HeldAt(n, s) \in Bytes \cup {NoPointer}
           /\ HeldAt(n, s) # NoPointer => HeldAt(n, s).body \in Body
<1>1. pointer_address(s) \in Name
    BY AddressIsName
<1>2. HeldAt(n, s) \in Bytes \cup {NoPointer}
    BY <1>1 DEF TypeOK, HeldAt
<1> QED  BY <1>2, BytesFields

LEMMA StepTypeOK == TypeOK /\ [Next]_vars => TypeOK'
<1> SUFFICES ASSUME TypeOK, [Next]_vars
             PROVE  TypeOK'
    OBVIOUS
<1>1. ASSUME NEW d \in Device,
             Create(d) \/ Update(d) \/ Finalize(d) \/ TransferTo(d) \/ SignRaw(d)
      PROVE  TypeOK'
    <2>1. PICK p \in Bytes :
              /\ wire' = wire \cup {p}
              /\ latest' = [latest EXCEPT ![d] = p]
              /\ UNCHANGED <<parsed, held, replies>>
        BY <1>1, DeviceStep
    <2> QED  BY <2>1 DEF TypeOK
<1>2. ASSUME NEW d \in Device, NEW b \in wire, Load(d, b)
      PROVE  TypeOK'
    BY <1>2 DEF Load, TypeOK
<1>3. ASSUME NEW b \in wire, Damage(b)
      PROVE  TypeOK'
    BY <1>3, DamageType DEF TypeOK
<1>4. ASSUME NEW n \in Node, NEW b \in wire, Recognise(n, b)
      PROVE  TypeOK'
    <2>1. b.body \in Body
        BY BytesFields DEF TypeOK
    <2>2. [node |-> n, kind |-> "Unchanged", submitted |-> b.body,
           holds |-> b.body] \in Reply
        BY <2>1 DEF Reply
    <2> QED  BY <1>4, <2>2 DEF Recognise, Answer, TypeOK
<1>5. ASSUME NEW n \in Node, NEW b \in wire, Admit(n, b)
      PROVE  TypeOK'
    BY <1>5 DEF Admit, TypeOK
<1>6. ASSUME NEW n \in Node, NEW b \in parsed[n], Reject(n, b)
      PROVE  TypeOK'
    BY <1>6 DEF Reject, Consume, TypeOK
<1>7. ASSUME NEW n \in Node, NEW b \in parsed[n], Store(n, b)
      PROVE  TypeOK'
    <2>1. b \in Bytes /\ b.body \in Body
        BY BytesFields DEF TypeOK
    <2>2. [node |-> n, kind |-> "Success", submitted |-> b.body,
           holds |-> b.body] \in Reply
        BY <2>1 DEF Reply
    <2>3. /\ wire' \subseteq Bytes
          /\ latest' \in [Device -> Bytes \cup {NoPointer}]
          /\ parsed' \in [Node -> SUBSET Bytes]
          /\ replies' \subseteq Reply
        BY <1>7, <2>2 DEF Store, Consume, Answer, TypeOK
    <2>4. held' \in [Node -> [Name -> Bytes \cup {NoPointer}]]
        BY <1>7, <2>1 DEF Store, TypeOK
    <2> QED  BY <2>3, <2>4 DEF TypeOK
<1>8. ASSUME NEW n \in Node, NEW b \in parsed[n], KeepHeld(n, b)
      PROVE  TypeOK'
    <2>1. b.body \in Body
        BY BytesFields DEF TypeOK
    <2>2. HeldAt(n, b.body) # NoPointer
        BY <1>8 DEF KeepHeld, Wins
    <2>3. HeldAt(n, b.body).body \in Body
        BY <2>1, <2>2, HeldTyped
    <2> DEFINE kind == IF Holds(n, b.body) THEN "Unchanged" ELSE "Stale"
    <2>4. [node |-> n, kind |-> kind, submitted |-> b.body,
           holds |-> HeldAt(n, b.body).body] \in Reply
        BY <2>1, <2>3 DEF Reply
    <2> QED  BY <1>8, <2>4 DEF KeepHeld, Consume, Answer, TypeOK
<1>9. CASE UNCHANGED vars
    BY <1>9 DEF vars, TypeOK
<1> QED
    BY <1>1, <1>2, <1>3, <1>4, <1>5, <1>6, <1>7, <1>8, <1>9
       DEF Next, Receive, Verify

\* Every variable always holds records of its shape.  The step that needs a
\* reason is update: checked_add keeps the successor within the counters.
THEOREM TypeCorrect == Spec => []TypeOK
BY InitTypeOK, StepTypeOK, PTL DEF Spec

-----------------------------------------------------------------------------
(* The merge order of a node, of either release *)

LEMMA BeatsOrder ==
    \A n \in Node : \A s, t, u \in Body :
        /\ ~ Beats(n, s, s)
        /\ Beats(n, s, t) => ~ Beats(n, t, s)
        /\ Beats(n, s, t) /\ Beats(n, t, u) => Beats(n, s, u)
BY OutRanksOrder DEF Beats, replaces, replaces_3_1_0

LEMMA BeatsTotal ==
    \A n \in Node : \A s, t \in Body :
        /\ pointer_address(s) = pointer_address(t)
        /\ s.version = t.version
        /\ s # t
        => \/ Beats(n, s, t)
           \/ Beats(n, t, s)
           \/ n \notin LegacyNode /\ is_terminal(s) /\ is_terminal(t)
BY ReplacesIsTotalBelowTheFinalCounter, OutRanksTotal
   DEF Beats, replaces_3_1_0

-----------------------------------------------------------------------------
(* The inductive invariant *)

\* What waits to be verified came off the wire and parsed.
ParsedOnWire ==
    \A n \in Node : \A b \in parsed[n] : b \in wire /\ Parses(b)

\* What is held came off the wire, parsed and verified, and is at its address.
HeldGenuine ==
    \A n \in Node, a \in Name : held[n][a] # NoPointer =>
        /\ held[n][a] \in wire
        /\ FromBytes(held[n][a])
        /\ pointer_address(held[n][a].body) = a

\* What the node answered with is still held, or beaten by what is held; and
\* what was submitted is what it answered with, or lost to it.
Covered(r) ==
    /\ pointer_address(r.holds) = pointer_address(r.submitted)
    /\ HoldingNow(r) # NoPointer
    /\ \/ HoldingNow(r) = r.holds
       \/ Beats(r.node, HoldingNow(r), r.holds)
    /\ \/ r.submitted = r.holds
       \/ r.kind = "Stale" /\ Beats(r.node, r.holds, r.submitted)
       \/ r.kind = "Stale" /\ r.node \notin LegacyNode
          /\ is_terminal(r.submitted) /\ is_terminal(r.holds)

AnswersCovered == \A r \in replies : Covered(r)

\* Nothing is held that was not answered for.
HeldAnswered ==
    \A n \in Node, a \in Name : held[n][a] # NoPointer =>
        Holding(n, a) \in Answered(n, a)

IInv ==
    /\ TypeOK
    /\ ParsedOnWire
    /\ HeldGenuine
    /\ AnswersCovered
    /\ HeldAnswered

LEMMA InitIInv == Init => IInv
<1> SUFFICES ASSUME Init
             PROVE  IInv
    OBVIOUS
<1>1. TypeOK
    BY InitTypeOK
<1>2. ParsedOnWire
    BY DEF Init, ParsedOnWire
<1>3. HeldGenuine
    BY DEF Init, HeldGenuine
<1>4. AnswersCovered
    BY DEF Init, AnswersCovered
<1>5. HeldAnswered
    BY DEF Init, HeldAnswered
<1> QED  BY <1>1, <1>2, <1>3, <1>4, <1>5 DEF IInv

\* Growing the wire disturbs nothing a node knows.
LEMMA WireGrows ==
    ASSUME IInv, TypeOK', wire \subseteq wire', UNCHANGED <<parsed, held, replies>>
    PROVE  IInv'
<1>1. ParsedOnWire'
    BY DEF IInv, ParsedOnWire
<1>2. HeldGenuine'
    BY DEF IInv, HeldGenuine
<1>3. AnswersCovered'
    BY DEF IInv, AnswersCovered, Covered, HoldingNow, Holding
<1>4. HeldAnswered'
    BY DEF IInv, HeldAnswered, Holding, Answered
<1> QED  BY <1>1, <1>2, <1>3, <1>4 DEF IInv

\* The records a node holds or verifies have this build's format version.
LEMMA OneVersion ==
    ASSUME IInv, NEW n \in Node, NEW s \in Body, HeldAt(n, s) # NoPointer
    PROVE  /\ HeldAt(n, s).body \in Body
           /\ HeldAt(n, s).body.version = POINTER_FORMAT_VERSION
           /\ pointer_address(HeldAt(n, s).body) = pointer_address(s)
<1>1. pointer_address(s) \in Name
    BY AddressIsName
<1>2. FromBytes(HeldAt(n, s)) /\ pointer_address(HeldAt(n, s).body) = pointer_address(s)
    BY <1>1 DEF IInv, HeldGenuine, HeldAt
<1> QED  BY <1>2, HeldTyped DEF FromBytes, Parses, IInv

\* A record on the wire is well formed, and a parsed one has this version.
LEMMA ParsedTyped ==
    ASSUME IInv, NEW n \in Node, NEW b \in parsed[n]
    PROVE  b \in wire /\ b \in Bytes /\ b.body \in Body /\ Parses(b)
           /\ b.body.version = POINTER_FORMAT_VERSION
BY BytesFields DEF IInv, TypeOK, ParsedOnWire, Parses

LEMMA ReplyTyped ==
    ASSUME TypeOK, NEW r \in replies
    PROVE  r.node \in Node /\ r.submitted \in Body /\ r.holds \in Body
BY DEF TypeOK, Reply

\* An answer stays covered when a node's holding moves up its merge order.
LEMMA CoverSurvives ==
    ASSUME IInv, TypeOK', NEW r \in replies,
           \/ HoldingNow(r)' = HoldingNow(r)
           \/ HoldingNow(r)' \in Body /\ Beats(r.node, HoldingNow(r)', HoldingNow(r)),
           HoldingNow(r) \in Body
    PROVE  Covered(r)'
<1>1. r.node \in Node /\ r.submitted \in Body /\ r.holds \in Body
    BY ReplyTyped DEF IInv
<1>2. Covered(r)
    BY DEF IInv, AnswersCovered
<1>3. HoldingNow(r)' # NoPointer
    BY <1>2, NoPointerAssumption DEF Covered
<1>4. HoldingNow(r)' = r.holds \/ Beats(r.node, HoldingNow(r)', r.holds)
    <2>1. CASE HoldingNow(r)' = HoldingNow(r)
        BY <1>2, <2>1 DEF Covered
    <2>2. CASE HoldingNow(r)' \in Body /\ Beats(r.node, HoldingNow(r)', HoldingNow(r))
        BY <1>1, <1>2, <2>2, BeatsOrder DEF Covered
    <2> QED  BY <2>1, <2>2
<1> QED  BY <1>2, <1>3, <1>4 DEF Covered

LEMMA HoldingTyped ==
    ASSUME IInv, NEW r \in replies
    PROVE  HoldingNow(r) \in Body
<1>1. r.node \in Node /\ r.submitted \in Body
    BY ReplyTyped DEF IInv
<1>2. HoldingNow(r) # NoPointer
    BY DEF IInv, AnswersCovered, Covered
<1>3. held[r.node][pointer_address(r.submitted)] \in Bytes \cup {NoPointer}
    BY <1>1, AddressIsName DEF IInv, TypeOK
<1> QED  BY <1>2, <1>3, BytesFields DEF HoldingNow, Holding

LEMMA RecogniseIInv ==
    ASSUME IInv, TypeOK', NEW n \in Node, NEW b \in wire, Recognise(n, b)
    PROVE  IInv'
<1> DEFINE r == [node |-> n, kind |-> "Unchanged", submitted |-> b.body,
                 holds |-> b.body]
<1>1. /\ replies' = replies \cup {r}
      /\ UNCHANGED <<latest, wire, parsed, held>>
    BY DEF Recognise, Answer
<1>2. b.body \in Body
    BY BytesFields DEF IInv, TypeOK
<1>3. ParsedOnWire' /\ HeldGenuine'
    BY <1>1 DEF IInv, ParsedOnWire, HeldGenuine
<1>4. Covered(r)'
    <2>1. HoldingNow(r)' = b.body
        BY <1>1 DEF HoldingNow, Holding, Recognise, Holds, HeldAt
    <2>2. b.body # NoPointer
        BY <1>2, NoPointerAssumption
    <2> QED  BY <2>1, <2>2 DEF Covered
<1>5. ASSUME NEW q \in replies PROVE Covered(q)'
    BY <1>1, <1>5 DEF IInv, AnswersCovered, Covered, HoldingNow, Holding
<1>6. AnswersCovered'
    BY <1>1, <1>4, <1>5 DEF AnswersCovered
<1>7. HeldAnswered'
    BY <1>1 DEF IInv, HeldAnswered, Holding, Answered
<1> QED  BY <1>3, <1>6, <1>7 DEF IInv

LEMMA AdmitIInv ==
    ASSUME IInv, TypeOK', NEW n \in Node, NEW b \in wire, Admit(n, b)
    PROVE  IInv'
<1>1. /\ parsed' = [parsed EXCEPT ![n] = @ \cup {b}]
      /\ Parses(b)
      /\ UNCHANGED <<latest, wire, held, replies>>
    BY DEF Admit
<1>2. ParsedOnWire'
    BY <1>1 DEF IInv, TypeOK, ParsedOnWire
<1>3. HeldGenuine'
    BY <1>1 DEF IInv, HeldGenuine
<1>4. AnswersCovered'
    BY <1>1 DEF IInv, AnswersCovered, Covered, HoldingNow, Holding
<1>5. HeldAnswered'
    BY <1>1 DEF IInv, HeldAnswered, Holding, Answered
<1> QED  BY <1>2, <1>3, <1>4, <1>5 DEF IInv

LEMMA RejectIInv ==
    ASSUME IInv, TypeOK', NEW n \in Node, NEW b \in parsed[n], Reject(n, b)
    PROVE  IInv'
<1>1. /\ parsed' = [parsed EXCEPT ![n] = @ \ {b}]
      /\ UNCHANGED <<latest, wire, held, replies>>
    BY DEF Reject, Consume
<1>2. ParsedOnWire'
    BY <1>1 DEF IInv, TypeOK, ParsedOnWire
<1>3. HeldGenuine'
    BY <1>1 DEF IInv, HeldGenuine
<1>4. AnswersCovered'
    BY <1>1 DEF IInv, AnswersCovered, Covered, HoldingNow, Holding
<1>5. HeldAnswered'
    BY <1>1 DEF IInv, HeldAnswered, Holding, Answered
<1> QED  BY <1>2, <1>3, <1>4, <1>5 DEF IInv

LEMMA StoreIInv ==
    ASSUME IInv, TypeOK', NEW n \in Node, NEW b \in parsed[n], Store(n, b)
    PROVE  IInv'
<1> DEFINE r == [node |-> n, kind |-> "Success", submitted |-> b.body,
                 holds |-> b.body]
           a == pointer_address(b.body)
<1>1. /\ parsed' = [parsed EXCEPT ![n] = @ \ {b}]
      /\ held' = [held EXCEPT ![n][a] = b]
      /\ replies' = replies \cup {r}
      /\ UNCHANGED <<latest, wire>>
    BY DEF Store, Consume, Answer
<1>2. b \in wire /\ b \in Bytes /\ b.body \in Body /\ FromBytes(b) /\ a \in Name
    BY ParsedTyped, AddressIsName DEF Store, FromBytes
<1>3. b # NoPointer
    BY <1>2, NoPointerAssumption
<1>4. \A m \in Node, x \in Name :
          held'[m][x] = IF m = n /\ x = a THEN b ELSE held[m][x]
    BY <1>1, <1>2 DEF IInv, TypeOK
<1>5. ParsedOnWire'
    BY <1>1 DEF IInv, TypeOK, ParsedOnWire
<1>6. HeldGenuine'
    BY <1>1, <1>2, <1>4 DEF IInv, HeldGenuine
<1>7. Covered(r)'
    <2>1. HoldingNow(r)' = b.body
        BY <1>2, <1>3, <1>4 DEF HoldingNow, Holding
    <2>2. b.body # NoPointer
        BY <1>2, NoPointerAssumption
    <2> QED  BY <2>1, <2>2 DEF Covered
<1>8. ASSUME NEW q \in replies PROVE Covered(q)'
    <2>1. q.node \in Node /\ q.submitted \in Body /\ q.holds \in Body
        BY ReplyTyped DEF IInv
    <2>2. HoldingNow(q) \in Body
        BY HoldingTyped
    <2>3. pointer_address(q.submitted) \in Name
        BY <2>1, AddressIsName
    <2>4. CASE q.node = n /\ pointer_address(q.submitted) = a
        <3>1. HoldingNow(q)' = b.body
            BY <1>2, <1>3, <1>4, <2>3, <2>4 DEF HoldingNow, Holding
        <3>2. HeldAt(n, b.body) # NoPointer
            BY <2>2, <2>4, NoPointerAssumption DEF HoldingNow, Holding, HeldAt
        <3>3. HoldingNow(q) = HeldAt(n, b.body).body
            BY <2>4, <3>2 DEF HoldingNow, Holding, HeldAt
        <3>4. Beats(n, b.body, HeldAt(n, b.body).body)
            BY <3>2 DEF Store, Wins
        <3> QED  BY <1>2, <2>2, <2>4, <3>1, <3>3, <3>4, CoverSurvives
    <2>5. CASE ~ (q.node = n /\ pointer_address(q.submitted) = a)
        <3>1. HoldingNow(q)' = HoldingNow(q)
            BY <1>4, <2>1, <2>3, <2>5 DEF HoldingNow, Holding
        <3> QED  BY <2>2, <3>1, CoverSurvives
    <2> QED  BY <2>4, <2>5
<1>9. AnswersCovered'
    BY <1>1, <1>7, <1>8 DEF AnswersCovered
<1>10. HeldAnswered'
    <2> SUFFICES ASSUME NEW m \in Node, NEW x \in Name, held'[m][x] # NoPointer
                 PROVE  Holding(m, x)' \in Answered(m, x)'
        BY DEF HeldAnswered
    <2>1. Answered(m, x) \subseteq Answered(m, x)'
        BY <1>1 DEF Answered
    <2>2. CASE m = n /\ x = a
        <3>1. Holding(m, x)' = b.body
            BY <1>3, <1>4, <2>2 DEF Holding
        <3>2. r \in replies'
            BY <1>1
        <3> QED  BY <2>2, <3>1, <3>2 DEF Answered
    <2>3. CASE ~ (m = n /\ x = a)
        BY <1>4, <2>1, <2>3 DEF IInv, HeldAnswered, Holding
    <2> QED  BY <2>2, <2>3
<1> QED  BY <1>5, <1>6, <1>9, <1>10 DEF IInv

LEMMA KeepHeldIInv ==
    ASSUME IInv, TypeOK', NEW n \in Node, NEW b \in parsed[n], KeepHeld(n, b)
    PROVE  IInv'
<1>h. PICK h : h = HeldAt(n, b.body).body
    OBVIOUS
<1>k. PICK kind : kind = IF Holds(n, b.body) THEN "Unchanged" ELSE "Stale"
    OBVIOUS
<1> DEFINE r == [node |-> n, kind |-> kind, submitted |-> b.body, holds |-> h]
<1>1. /\ parsed' = [parsed EXCEPT ![n] = @ \ {b}]
      /\ replies' = replies \cup {r}
      /\ UNCHANGED <<latest, wire, held>>
    BY <1>h, <1>k DEF KeepHeld, Consume, Answer
<1>2. b.body \in Body /\ b.body.version = POINTER_FORMAT_VERSION
    BY ParsedTyped
<1>3. HeldAt(n, b.body) # NoPointer /\ ~ Beats(n, b.body, h)
    BY <1>h DEF KeepHeld, Wins
<1>4. /\ h \in Body /\ h.version = POINTER_FORMAT_VERSION
      /\ pointer_address(h) = pointer_address(b.body)
    BY <1>h, <1>2, <1>3, OneVersion
<1>5. ParsedOnWire' /\ HeldGenuine'
    BY <1>1 DEF IInv, TypeOK, ParsedOnWire, HeldGenuine
<1>6. Covered(r)'
    <2>1. HoldingNow(r)' = h /\ h # NoPointer
        BY <1>h, <1>1, <1>3, <1>4, NoPointerAssumption
           DEF HoldingNow, Holding, HeldAt
    <2>2. CASE b.body = h
        BY <1>4, <2>1, <2>2 DEF Covered
    <2>3. CASE b.body # h
        <3>1. r.kind = "Stale"
            BY <1>h, <1>k, <2>3 DEF Holds
        <3>2. \/ Beats(n, h, b.body)
              \/ n \notin LegacyNode /\ is_terminal(b.body) /\ is_terminal(h)
            BY <1>2, <1>3, <1>4, <2>3, BeatsTotal
        <3> QED  BY <1>4, <2>1, <3>1, <3>2 DEF Covered
    <2> QED  BY <2>2, <2>3
<1>7. ASSUME NEW q \in replies PROVE Covered(q)'
    BY <1>1, <1>7 DEF IInv, AnswersCovered, Covered, HoldingNow, Holding
<1>8. AnswersCovered'
    BY <1>1, <1>6, <1>7 DEF AnswersCovered
<1>9. HeldAnswered'
    BY <1>1 DEF IInv, HeldAnswered, Holding, Answered
<1> QED  BY <1>5, <1>8, <1>9 DEF IInv

LEMMA StepIInv == IInv /\ [Next]_vars => IInv'
<1> SUFFICES ASSUME IInv, [Next]_vars
             PROVE  IInv'
    OBVIOUS
<1>1. TypeOK'
    BY StepTypeOK DEF IInv
<1>2. ASSUME NEW d \in Device,
             Create(d) \/ Update(d) \/ Finalize(d) \/ TransferTo(d) \/ SignRaw(d)
      PROVE  IInv'
    <2>1. wire \subseteq wire' /\ UNCHANGED <<parsed, held, replies>>
        BY <1>2, DeviceStep DEF IInv
    <2> QED  BY <1>1, <2>1, WireGrows
<1>3. ASSUME NEW d \in Device, NEW b \in wire, Load(d, b)
      PROVE  IInv'
    BY <1>1, <1>3, WireGrows DEF Load
<1>4. ASSUME NEW b \in wire, Damage(b)
      PROVE  IInv'
    BY <1>1, <1>4, DamageType, WireGrows DEF IInv
<1>5. ASSUME NEW n \in Node, NEW b \in wire, Receive(n, b)
      PROVE  IInv'
    BY <1>1, <1>5, RecogniseIInv, AdmitIInv DEF Receive
<1>6. ASSUME NEW n \in Node, NEW b \in parsed[n], Verify(n, b)
      PROVE  IInv'
    BY <1>1, <1>6, RejectIInv, StoreIInv, KeepHeldIInv DEF Verify
<1>7. CASE UNCHANGED vars
    BY <1>1, <1>7, WireGrows DEF vars
<1> QED  BY <1>2, <1>3, <1>4, <1>5, <1>6, <1>7 DEF Next

\* What the parts of the invariant say of devices, packets and nodes holds in
\* every state of every behaviour.
THEOREM Invariance == Spec => []IInv
BY InitIInv, StepIInv, PTL DEF Spec

-----------------------------------------------------------------------------
(* What the invariant says *)

LEMMA IInvAuthentic == IInv => HeldAuthentic
<1> SUFFICES ASSUME IInv, NEW n \in Node, NEW a \in Name, held[n][a] # NoPointer
             PROVE  /\ Holding(n, a) \in Authored
                    /\ pointer_address(Holding(n, a)) = a
    BY DEF HeldAuthentic
<1>1. /\ held[n][a] \in wire
      /\ Verifies(held[n][a])
      /\ pointer_address(held[n][a].body) = a
    BY DEF IInv, HeldGenuine, FromBytes
<1>2. held[n][a].body \in Authored
    BY <1>1 DEF Verifies, Authored
<1> QED  BY <1>1, <1>2 DEF Holding

\* No node ever holds a state its owner did not sign.
THEOREM Authenticity == Spec => []HeldAuthentic
BY Invariance, IInvAuthentic, PTL

LEMMA IInvReplies ==
    IInv => RepliesStayTrue /\ FinalIsForever /\ SubmissionsStaySettled
<1> SUFFICES ASSUME IInv, NEW r \in replies, r.node \notin LegacyNode
             PROVE  /\ HoldingNow(r) # NoPointer
                    /\ HoldingNow(r) = r.holds \/ replaces(HoldingNow(r), r.holds)
                    /\ is_terminal(r.holds) => HoldingNow(r) = r.holds
                    /\ \/ HoldingNow(r) = r.submitted
                       \/ replaces(HoldingNow(r), r.submitted)
                       \/ r.kind = "Stale" /\ is_terminal(HoldingNow(r))
    BY DEF RepliesStayTrue, FinalIsForever, SubmissionsStaySettled,
           CurrentReplies
<1>1. r.submitted \in Body /\ r.holds \in Body /\ HoldingNow(r) \in Body
    BY ReplyTyped, HoldingTyped DEF IInv
<1>2. /\ HoldingNow(r) # NoPointer
      /\ HoldingNow(r) = r.holds \/ replaces(HoldingNow(r), r.holds)
      /\ \/ r.submitted = r.holds
         \/ r.kind = "Stale" /\ replaces(r.holds, r.submitted)
         \/ r.kind = "Stale" /\ is_terminal(r.holds)
    BY DEF IInv, AnswersCovered, Covered, Beats
<1>3. is_terminal(r.holds) => HoldingNow(r) = r.holds
    BY <1>2 DEF replaces
<1>4. replaces(HoldingNow(r), r.holds) /\ replaces(r.holds, r.submitted) =>
          replaces(HoldingNow(r), r.submitted)
    BY <1>1, ReplacesIsAStrictOrder
<1> QED  BY <1>2, <1>3, <1>4

\* What a node has said it holds stays held or is properly replaced.
THEOREM Replies == Spec => []RepliesStayTrue
BY Invariance, IInvReplies, PTL

\* A submission once answered can change nothing at that node any more.
THEOREM Settlement == Spec => []SubmissionsStaySettled
BY Invariance, IInvReplies, PTL

\* A final state, once held, is held for ever, so a transfer is never undone.
THEOREM Finality == Spec => []FinalIsForever
BY Invariance, IInvReplies, PTL

\* Of two states one node answered for, what it holds out-ranks the other,
\* unless both are final.
LEMMA HoldingOutRanks ==
    ASSUME IInv, NEW n \in Node, NEW a \in Name, NEW s \in Answered(n, a)
    PROVE  /\ s \in Body /\ held[n][a] # NoPointer /\ Holding(n, a) \in Body
           /\ \/ Holding(n, a) = s
              \/ OutRanks(Holding(n, a), s)
              \/ is_terminal(Holding(n, a)) /\ is_terminal(s)
<1>1. PICK r \in replies : /\ r.node = n /\ pointer_address(r.submitted) = a
                           /\ r.submitted = s
    BY DEF Answered
<1>2. HoldingNow(r) = Holding(n, a)
    BY <1>1 DEF HoldingNow
<1>3. s \in Body /\ r.holds \in Body /\ Holding(n, a) \in Body
    BY <1>1, <1>2, ReplyTyped, HoldingTyped DEF IInv
<1>4. held[n][a] # NoPointer
    BY <1>3, NoPointerAssumption DEF Holding
<1>5. /\ Holding(n, a) = r.holds \/ Beats(n, Holding(n, a), r.holds)
      /\ \/ s = r.holds
         \/ Beats(n, r.holds, s)
         \/ n \notin LegacyNode /\ is_terminal(s) /\ is_terminal(r.holds)
    BY <1>1, <1>2 DEF IInv, AnswersCovered, Covered
<1>6. \A t, u \in Body : Beats(n, t, u) => OutRanks(t, u)
    BY DEF Beats, replaces, replaces_3_1_0
<1>7. n \notin LegacyNode /\ is_terminal(r.holds) => Holding(n, a) = r.holds
    BY <1>5 DEF Beats, replaces
<1>8. OutRanks(Holding(n, a), r.holds) /\ OutRanks(r.holds, s) =>
          OutRanks(Holding(n, a), s)
    BY <1>3, OutRanksOrder
<1> QED  BY <1>3, <1>4, <1>5, <1>6, <1>7, <1>8

LEMMA IInvConvergent == IInv => Convergent
<1> SUFFICES ASSUME IInv, NEW n \in Node, NEW m \in Node, NEW a \in Name,
                    Answered(n, a) = Answered(m, a),
                    ~ RivalFinals(Answered(n, a)),
                    Holding(n, a) # Holding(m, a)
             PROVE  FALSE
    BY DEF Convergent
<1>1. held[n][a] # NoPointer \/ held[m][a] # NoPointer
    BY DEF Holding
<1>2. Answered(n, a) # {}
    BY <1>1 DEF IInv, HeldAnswered
<1>3. held[n][a] # NoPointer /\ held[m][a] # NoPointer
    BY <1>2, HoldingOutRanks
<1>4. Holding(n, a) \in Answered(n, a) /\ Holding(m, a) \in Answered(n, a)
    BY <1>3 DEF IInv, HeldAnswered
<1>5. \A s \in Answered(n, a) : pointer_address(s) = a
    BY DEF Answered
<1>6. ~ (is_terminal(Holding(n, a)) /\ is_terminal(Holding(m, a)))
    BY <1>4, <1>5 DEF RivalFinals
<1>7. OutRanks(Holding(n, a), Holding(m, a)) /\ OutRanks(Holding(m, a), Holding(n, a))
    BY <1>4, <1>6, HoldingOutRanks
<1>8. Holding(n, a) \in Body /\ Holding(m, a) \in Body
    BY <1>4, HoldingOutRanks
<1> QED  BY <1>7, <1>8, OutRanksOrder

\* Two nodes that answered for the same states hold the same one, in a network
\* of either release or of both, unless two different final states were sent.
THEOREM Convergence == Spec => []Convergent
BY Invariance, IInvConvergent, PTL

-----------------------------------------------------------------------------
(* Forgeries, and nodes that have caught up *)

\* The states of genuine records: what a node can be brought to store.
GenuineAt(a) == {b.body : b \in {w \in wire :
                     FromBytes(w) /\ pointer_address(w.body) = a}}

\* Nobody signs for anyone else: every signature on the wire was made for a
\* genuine record, which is on the wire too.
SignaturesAreCopies ==
    \A b \in wire : \E w \in wire : FromBytes(w) /\ w.sig = b.sig

\* No node ever says anything of a state its owner did not sign, though the
\* answer Unchanged is given without verifying a signature.
AnswersAreAuthentic ==
    \A r \in replies : r.submitted \in Authored /\ r.holds \in Authored

\* What a node answered for, it answered for a genuine record of.
AnsweredGenuine ==
    \A r \in replies :
        {r.submitted, r.holds} \subseteq GenuineAt(pointer_address(r.submitted))

GInv == SignaturesAreCopies /\ AnsweredGenuine

LEMMA InitGInv == Init => GInv
BY DEF Init, GInv, SignaturesAreCopies, AnsweredGenuine

\* What a node holds is genuine.
LEMMA HeldIsGenuine ==
    ASSUME IInv, NEW n \in Node, NEW a \in Name, held[n][a] # NoPointer
    PROVE  Holding(n, a) \in GenuineAt(a)
BY DEF IInv, HeldGenuine, Holding, GenuineAt

LEMMA StepGInv == IInv /\ GInv /\ [Next]_vars => GInv'
<1> SUFFICES ASSUME IInv, GInv, [Next]_vars
             PROVE  GInv'
    OBVIOUS
<1>1. ASSUME wire \subseteq wire', UNCHANGED replies,
             \A b \in wire' \ wire : \E w \in wire' : FromBytes(w) /\ w.sig = b.sig
      PROVE  GInv'
    <2>1. SignaturesAreCopies'
        BY <1>1 DEF GInv, SignaturesAreCopies
    <2>2. \A a : GenuineAt(a) \subseteq GenuineAt(a)'
        BY <1>1 DEF GenuineAt
    <2>3. AnsweredGenuine'
        BY <1>1, <2>2 DEF GInv, AnsweredGenuine
    <2> QED  BY <2>1, <2>3 DEF GInv
<1>2. ASSUME NEW n \in Node, NEW b \in wire, NEW kind, NEW holds,
             UNCHANGED wire, Answer(n, kind, b.body, holds),
             {b.body, holds} \subseteq GenuineAt(pointer_address(b.body))
      PROVE  GInv'
    <2>1. SignaturesAreCopies'
        BY <1>2 DEF GInv, SignaturesAreCopies
    <2>2. \A a : GenuineAt(a)' = GenuineAt(a)
        BY <1>2 DEF GenuineAt
    <2>3. \A r \in replies' :
              r \in replies \/ (r.submitted = b.body /\ r.holds = holds)
        BY <1>2 DEF Answer
    <2>4. AnsweredGenuine'
        BY <1>2, <2>2, <2>3 DEF GInv, AnsweredGenuine
    <2> QED  BY <2>1, <2>4 DEF GInv
<1>3. ASSUME NEW d \in Device,
             Create(d) \/ Update(d) \/ Finalize(d) \/ TransferTo(d) \/ SignRaw(d)
      PROVE  GInv'
    <2>1. PICK p \in Bytes : /\ FromBytes(p)
                             /\ wire' = wire \cup {p}
                             /\ UNCHANGED <<parsed, held, replies>>
        BY <1>3, DeviceStep DEF IInv
    <2> QED  BY <1>1, <2>1
<1>4. ASSUME NEW d \in Device, NEW b \in wire, Load(d, b)
      PROVE  GInv'
    BY <1>1, <1>4 DEF Load
<1>5. ASSUME NEW b \in wire, Damage(b)
      PROVE  GInv'
    <2>1. PICK f \in Forgery : wire' = wire \cup
              {[shape |-> f.shape, body |-> f.body, sig |-> b.sig]}
        BY <1>5 DEF Damage, Send
    <2>2. UNCHANGED replies
        BY <1>5, DamageType DEF IInv
    <2>3. PICK w \in wire : FromBytes(w) /\ w.sig = b.sig
        BY DEF GInv, SignaturesAreCopies
    <2>4. \A x \in wire' \ wire : x.sig = b.sig
        BY <2>1
    <2> QED  BY <1>1, <2>1, <2>2, <2>3, <2>4
<1>6. ASSUME NEW n \in Node, NEW b \in wire, Receive(n, b)
      PROVE  GInv'
    <2>1. CASE Admit(n, b)
        BY <1>1, <2>1 DEF Admit
    <2>2. CASE Recognise(n, b)
        <3>1. b.body \in Body
            BY BytesFields DEF IInv, TypeOK
        <3>2. /\ held[n][pointer_address(b.body)] # NoPointer
              /\ Holding(n, pointer_address(b.body)) = b.body
            BY <2>2 DEF Recognise, Holds, HeldAt, Holding
        <3>3. b.body \in GenuineAt(pointer_address(b.body))
            BY <3>1, <3>2, AddressIsName, HeldIsGenuine
        <3> QED  BY <1>2, <2>2, <3>3 DEF Recognise
    <2> QED  BY <1>6, <2>1, <2>2 DEF Receive
<1>7. ASSUME NEW n \in Node, NEW b \in parsed[n], Verify(n, b)
      PROVE  GInv'
    <2>1. CASE Reject(n, b)
        BY <1>1, <2>1 DEF Reject, Consume
    <2>2. CASE Store(n, b) \/ KeepHeld(n, b)
        <3>1. b \in wire /\ FromBytes(b) /\ UNCHANGED wire
            BY <2>2, ParsedTyped DEF Store, KeepHeld, Consume, FromBytes
        <3>2. b.body \in GenuineAt(pointer_address(b.body))
            BY <3>1 DEF GenuineAt
        <3>3. CASE Store(n, b)
            BY <1>2, <3>1, <3>2, <3>3 DEF Store
        <3>4. CASE KeepHeld(n, b)
            <4>1. b.body \in Body /\ pointer_address(b.body) \in Name
                BY ParsedTyped, AddressIsName
            <4>2. HeldAt(n, b.body) # NoPointer
                BY <3>4 DEF KeepHeld, Wins
            <4>3. HeldAt(n, b.body).body \in GenuineAt(pointer_address(b.body))
                BY <4>1, <4>2, HeldIsGenuine DEF HeldAt, Holding
            <4>4. PICK kind : Answer(n, kind, b.body, HeldAt(n, b.body).body)
                BY <3>4 DEF KeepHeld
            <4> QED  BY <1>2, <3>1, <3>2, <4>3, <4>4
        <3> QED  BY <2>2, <3>3, <3>4
    <2> QED  BY <1>7, <2>1, <2>2 DEF Verify
<1>8. CASE UNCHANGED vars
    BY <1>1, <1>8 DEF vars
<1> QED  BY <1>3, <1>4, <1>5, <1>6, <1>7, <1>8 DEF Next

LEMMA GInvariance == Spec => []GInv
BY InitGInv, StepGInv, Invariance, PTL DEF Spec

\* What owners signed and what can be stored are the same states.
LEMMA GenuineIsAuthored ==
    ASSUME SignaturesAreCopies, NEW a
    PROVE  GenuineAt(a) = {s \in Authored : pointer_address(s) = a}
<1>1. \A b \in wire : FromBytes(b) => b.sig.over = b.body /\ b.sig.signer = b.body.owner
    BY DEF FromBytes, Verifies
<1>2. GenuineAt(a) \subseteq {s \in Authored : pointer_address(s) = a}
    BY <1>1 DEF GenuineAt, Authored
<1>3. ASSUME NEW s \in Authored, pointer_address(s) = a
      PROVE  s \in GenuineAt(a)
    <2>1. PICK b \in wire : b.sig.over = s
        BY DEF Authored
    <2>2. PICK w \in wire : FromBytes(w) /\ w.sig = b.sig
        BY DEF SignaturesAreCopies
    <2> QED  BY <1>1, <1>3, <2>1, <2>2 DEF GenuineAt
<1> QED  BY <1>2, <1>3

\* Every answer is about states their owner signed, for every kind of damage
\* a copy may suffer.
THEOREM AuthenticAnswers == Spec => []AnswersAreAuthentic
<1>1. IInv /\ GInv => AnswersAreAuthentic
    BY GenuineIsAuthored DEF GInv, AnsweredGenuine, AnswersAreAuthentic
<1> QED  BY <1>1, Invariance, GInvariance, PTL

\* A node that has answered for every record of an address its owner signed.
CaughtUp(n, a) == {s \in Authored : pointer_address(s) = a} \subseteq Answered(n, a)

\* A node that has caught up holds the one state of all its owner signed that
\* beats every other, whatever it was sent, in what order, how often and how
\* damaged; so do two nodes that have, of either release.  This is what Heals
\* leaves to prove of the code once fairness has brought every record to
\* every node.
CaughtUpHoldTheNewest ==
    \A n \in Node, a \in Name :
        LET signed == {s \in Authored : pointer_address(s) = a}
        IN  CaughtUp(n, a) /\ signed # {} /\ ~ RivalFinals(signed) =>
                /\ Holding(n, a) \in signed
                /\ \A s \in signed \ {Holding(n, a)} :
                       Beats(n, Holding(n, a), s)
                /\ \A m \in Node : CaughtUp(m, a) => Holding(m, a) = Holding(n, a)

LEMMA CaughtUpIsNewest == IInv /\ GInv => CaughtUpHoldTheNewest
<1> SUFFICES ASSUME IInv, GInv, NEW n \in Node, NEW a \in Name, CaughtUp(n, a),
                    NEW signed, signed = {s \in Authored : pointer_address(s) = a},
                    signed # {}, ~ RivalFinals(signed)
             PROVE  /\ Holding(n, a) \in signed
                    /\ \A s \in signed \ {Holding(n, a)} :
                           Beats(n, Holding(n, a), s)
                    /\ \A m \in Node : CaughtUp(m, a) => Holding(m, a) = Holding(n, a)
    BY DEF CaughtUpHoldTheNewest
<1>1. signed = GenuineAt(a)
    BY GenuineIsAuthored DEF GInv
<1>2. \A m \in Node : CaughtUp(m, a) => Answered(m, a) = signed
    BY <1>1 DEF GInv, AnsweredGenuine, Answered, CaughtUp
<1>3. held[n][a] # NoPointer
    BY <1>2, HoldingOutRanks
<1>4. Holding(n, a) \in signed
    BY <1>1, <1>3, HeldIsGenuine
<1>5. ASSUME NEW s \in signed \ {Holding(n, a)}
      PROVE  Beats(n, Holding(n, a), s)
    <2>1. /\ s \in Body /\ Holding(n, a) \in Body
          /\ \/ OutRanks(Holding(n, a), s)
             \/ is_terminal(Holding(n, a)) /\ is_terminal(s)
        BY <1>2, HoldingOutRanks
    <2>2. ~ (is_terminal(Holding(n, a)) /\ is_terminal(s))
        BY <1>4 DEF RivalFinals
    <2>3. /\ pointer_address(s) = pointer_address(Holding(n, a))
          /\ s.version = Holding(n, a).version
        BY <1>1, <1>4 DEF GenuineAt, FromBytes, Parses
    <2>4. OutRanks(Holding(n, a), s) /\ is_terminal(s) => is_terminal(Holding(n, a))
        BY <2>1, BodyFields, CounterAssumption DEF OutRanks, is_terminal
    <2> QED  BY <2>1, <2>2, <2>3, <2>4 DEF Beats, replaces, replaces_3_1_0
<1>6. ASSUME NEW m \in Node, CaughtUp(m, a)
      PROVE  Holding(m, a) = Holding(n, a)
    BY <1>2, <1>6, IInvConvergent DEF Convergent
<1> QED  BY <1>4, <1>5, <1>6

\* Nodes that have seen the same records agree, in whatever order they came and
\* however often: the half of Heals that needs no fairness.
THEOREM CaughtUpAgree == Spec => []CaughtUpHoldTheNewest
BY CaughtUpIsNewest, Invariance, GInvariance, PTL

-----------------------------------------------------------------------------
(* What a step may do *)

\* held changes only when a node stores a record.
LEMMA HeldChanges ==
    ASSUME TypeOK, [Next]_vars, NEW n \in Node, NEW a \in Name,
           held'[n][a] # held[n][a]
    PROVE  \E b \in parsed[n] :
               /\ Store(n, b)
               /\ pointer_address(b.body) = a
               /\ held'[n][a] = b
<1>1. ASSUME NEW d \in Device,
             Create(d) \/ Update(d) \/ Finalize(d) \/ TransferTo(d) \/ SignRaw(d)
      PROVE  FALSE
    BY <1>1, DeviceStep
<1>2. ASSUME NEW d \in Device, NEW b \in wire, Load(d, b)
      PROVE  FALSE
    BY <1>2 DEF Load
<1>3. ASSUME NEW b \in wire, Damage(b)
      PROVE  FALSE
    BY <1>3, DamageType
<1>4. ASSUME NEW m \in Node, NEW b \in wire, Receive(m, b)
      PROVE  FALSE
    BY <1>4 DEF Receive, Recognise, Admit
<1>5. ~ UNCHANGED vars
    BY DEF vars
<1>m. PICK m \in Node : \E b \in parsed[m] : Verify(m, b)
    BY <1>1, <1>2, <1>3, <1>4, <1>5 DEF Next
<1>6. PICK b \in parsed[m] : Verify(m, b)
    BY <1>m
<1>7. Store(m, b)
    BY <1>6 DEF Verify, Reject, KeepHeld
<1>8. held' = [held EXCEPT ![m][pointer_address(b.body)] = b]
    BY <1>7 DEF Store
<1>9. b.body \in Body
    BY BytesFields DEF TypeOK
<1>10. m = n /\ pointer_address(b.body) = a /\ held'[n][a] = b
    BY <1>8, <1>9, AddressIsName DEF TypeOK
<1> QED  BY <1>6, <1>7, <1>10

LEMMA StoresOnce ==
    IInv /\ [Next]_vars =>
        \A n \in Node, a \in Name : held'[n][a] # held[n][a] =>
            \A r \in replies : r.node = n /\ r.kind = "Success" =>
                r.submitted # held'[n][a].body
<1> SUFFICES ASSUME IInv, [Next]_vars, NEW n \in Node, NEW a \in Name,
                    held'[n][a] # held[n][a],
                    NEW r \in replies, r.node = n, r.kind = "Success",
                    r.submitted = held'[n][a].body
             PROVE  FALSE
    OBVIOUS
<1>1. PICK b \in parsed[n] : /\ Store(n, b)
                             /\ pointer_address(b.body) = a
                             /\ held'[n][a] = b
    BY HeldChanges DEF IInv
<1>2. r.submitted = b.body /\ pointer_address(r.submitted) = a
    BY <1>1
<1>3. b.body \in Body /\ HoldingNow(r) \in Body
    BY ParsedTyped, HoldingTyped
<1>4. r.holds = b.body
    BY <1>2 DEF IInv, AnswersCovered, Covered
<1>5. HoldingNow(r) = b.body \/ Beats(n, HoldingNow(r), b.body)
    BY <1>4 DEF IInv, AnswersCovered, Covered
<1>6. HeldAt(n, b.body) # NoPointer /\ HoldingNow(r) = HeldAt(n, b.body).body
    BY <1>1, <1>2, <1>3, NoPointerAssumption DEF HoldingNow, Holding, HeldAt
<1>7. Beats(n, b.body, HoldingNow(r))
    BY <1>1, <1>6 DEF Store, Wins
<1> QED  BY <1>3, <1>5, <1>7, BeatsOrder

\* One write per state and node, whatever re-encodings the owner signs.
THEOREM StoredOnce == Spec => NeverStoredTwice
<1>1. IInv /\ [Next]_vars =>
          [\A n \in Node, a \in Name : held'[n][a] # held[n][a] =>
              \A r \in replies : r.node = n /\ r.kind = "Success" =>
                  r.submitted # held'[n][a].body]_vars
    BY StoresOnce
<1> QED  BY <1>1, Invariance, PTL DEF Spec, NeverStoredTwice

-----------------------------------------------------------------------------
(* The abstract register *)

\* The two statements of the merge rule are one: replaces, with rule 0 and
\* std::cmp::Reverse, against the successor relation of PointerRegister.
LEMMA ReplacesIsSupersedes ==
    \A s, t \in Body : replaces(s, t) => Register!Supersedes(s, t)
<1> SUFFICES ASSUME NEW s \in Body, NEW t \in Body, replaces(s, t)
             PROVE  Register!Supersedes(s, t)
    OBVIOUS
<1>1. /\ s.counter \in Nat /\ t.counter \in Nat
      /\ s.target \in Target /\ t.target \in Target
    BY BodyFields
<1>2. /\ s.target.kind_tag \in Nat /\ t.target.kind_tag \in Nat
      /\ s.target.address \in Nat /\ t.target.address \in Nat
    BY <1>1, TargetFields
<1>3. Register!SmallerTarget(TargetPair(s), TargetPair(t)) <=>
          TargetBytesBelow(s.target, t.target)
    BY <1>2 DEF Register!SmallerTarget, TargetPair, TargetBytesBelow
<1> QED  BY <1>1, <1>3 DEF replaces, OutRanks, is_terminal,
            Register!Supersedes, Register!Final, CounterOf

\* The value each variable of the abstract register has in a state.
Registers ==
    [n \in Node \ LegacyNode |-> [a \in Name |-> Holding(n, a)]]

LEMMA RegisterInit == Init => Register!Init
<1> SUFFICES ASSUME Init
             PROVE  Register!Init
    OBVIOUS
<1>1. Authored = {}
    BY DEF Init, Authored
<1>2. \A n \in Node, a \in Name : Holding(n, a) = NoPointer
    BY DEF Init, Holding
<1> QED  BY <1>1, <1>2 DEF Register!Init

\* A device operation authors the state it signs.
LEMMA DeviceAuthors ==
    ASSUME TypeOK, NEW d \in Device,
           Create(d) \/ Update(d) \/ Finalize(d) \/ TransferTo(d) \/ SignRaw(d)
    PROVE  Register!Next
<1>1. PICK p \in Bytes :
          /\ FromBytes(p)
          /\ p.sig.over = p.body /\ p.sig.signer = KeyOf[d]
          /\ wire' = wire \cup {p}
          /\ UNCHANGED <<parsed, held, replies>>
    BY DeviceStep
<1>2. p.body \in [version : {POINTER_FORMAT_VERSION}, owner : Owner,
                  counter : Counter, target : Target]
    BY <1>1, BytesFields DEF Body, FromBytes, Parses
<1>3. Authored' = Authored \cup {p.body}
    BY <1>1 DEF Authored, FromBytes, Verifies
<1>4. Registers' = Registers
    BY <1>1 DEF Registers, Holding
<1>5. Register!Author(p.body)
    BY <1>3, <1>4 DEF Register!Author, Registers
<1> QED  BY <1>2, <1>5 DEF Register!Next

LEMMA SameRegister ==
    ASSUME Authored' = Authored, UNCHANGED held
    PROVE  UNCHANGED Register!vars
<1>1. Registers' = Registers
    BY DEF Registers, Holding
<1> QED  BY <1>1 DEF Register!vars, Registers

\* A node that stores a record advances its register; an older node is not a
\* replica of the abstract register, and its steps stutter.
LEMMA StoreAdvances ==
    ASSUME IInv, NEW n \in Node, NEW b \in parsed[n], Store(n, b)
    PROVE  Register!Next \/ UNCHANGED Register!vars
<1> DEFINE a == pointer_address(b.body)
<1>1. /\ held' = [held EXCEPT ![n][a] = b]
      /\ UNCHANGED wire
    BY DEF Store, Consume
<1>2. b \in wire /\ b \in Bytes /\ b.body \in Body /\ FromBytes(b) /\ a \in Name
    BY ParsedTyped, AddressIsName DEF Store, FromBytes
<1>3. Authored' = Authored
    BY <1>1 DEF Authored
<1>4. \A m \in Node, x \in Name :
          held'[m][x] = IF m = n /\ x = a THEN b ELSE held[m][x]
    BY <1>1, <1>2 DEF IInv, TypeOK
<1>5. b # NoPointer
    BY <1>2, NoPointerAssumption
<1>6. \A m \in Node, x \in Name :
          Holding(m, x)' = IF m = n /\ x = a THEN b.body ELSE Holding(m, x)
    BY <1>4, <1>5 DEF Holding
<1>7. CASE n \in LegacyNode
    <2>1. Registers' = Registers
        BY <1>6, <1>7 DEF Registers
    <2> QED  BY <1>3, <2>1 DEF Register!vars, Registers
<1>8. CASE n \notin LegacyNode
    <2>1. Registers' = [Registers EXCEPT ![n][a] = b.body]
        BY <1>2, <1>6, <1>8 DEF Registers
    <2>2. b.body \in Authored
        BY <1>2 DEF Authored, FromBytes, Verifies
    <2>3. ASSUME Registers[n][a] # NoPointer
          PROVE  Register!Supersedes(b.body, Registers[n][a])
        <3>1. Registers[n][a] = Holding(n, a)
            BY <1>2, <1>8 DEF Registers
        <3>2. HeldAt(n, b.body) # NoPointer /\ Holding(n, a) = HeldAt(n, b.body).body
            BY <2>3, <3>1 DEF Holding, HeldAt
        <3>3. replaces(b.body, HeldAt(n, b.body).body)
            BY <1>8, <3>2 DEF Store, Wins, Beats
        <3>4. HeldAt(n, b.body).body \in Body
            BY <1>2, <3>2, HeldTyped DEF IInv
        <3> QED  BY <1>2, <3>1, <3>2, <3>3, <3>4, ReplacesIsSupersedes
    <2>4. Register!Advance(n, a, b.body)
        BY <1>3, <2>1, <2>2, <2>3 DEF Register!Advance, Registers
    <2>5. b.body \in [version : {POINTER_FORMAT_VERSION}, owner : Owner,
                      counter : Counter, target : Target]
        BY <1>2 DEF Body, FromBytes, Parses
    <2> QED  BY <1>2, <1>8, <2>4, <2>5 DEF Register!Next
<1> QED  BY <1>7, <1>8

LEMMA RegisterStep ==
    IInv /\ [Next]_vars => [Register!Next]_(Register!vars)
<1> SUFFICES ASSUME IInv, [Next]_vars
             PROVE  Register!Next \/ UNCHANGED Register!vars
    OBVIOUS
<1>1. ASSUME NEW d \in Device,
             Create(d) \/ Update(d) \/ Finalize(d) \/ TransferTo(d) \/ SignRaw(d)
      PROVE  Register!Next
    BY <1>1, DeviceAuthors DEF IInv
<1>2. ASSUME UNCHANGED <<wire, held>>
      PROVE  UNCHANGED Register!vars
    <2>1. Authored' = Authored
        BY <1>2 DEF Authored
    <2> QED  BY <1>2, <2>1, SameRegister
<1>3. ASSUME NEW d \in Device, NEW b \in wire, Load(d, b)
      PROVE  UNCHANGED <<wire, held>>
    BY <1>3 DEF Load
<1>4. ASSUME NEW b \in wire, Damage(b)
      PROVE  UNCHANGED Register!vars
    <2>1. PICK f \in Forgery : wire' = wire \cup
              {[shape |-> f.shape, body |-> f.body, sig |-> b.sig]}
        BY <1>4 DEF Damage, Send
    <2>2. Authored' = Authored
        BY <2>1 DEF Authored
    <2>3. UNCHANGED held
        BY <1>4, DamageType DEF IInv
    <2> QED  BY <2>2, <2>3, SameRegister
<1>5. ASSUME NEW n \in Node, NEW b \in wire, Receive(n, b)
      PROVE  UNCHANGED <<wire, held>>
    BY <1>5 DEF Receive, Recognise, Admit
<1>6. ASSUME NEW n \in Node, NEW b \in parsed[n], Reject(n, b) \/ KeepHeld(n, b)
      PROVE  UNCHANGED <<wire, held>>
    BY <1>6 DEF Reject, KeepHeld, Consume
<1>7. ASSUME NEW n \in Node, NEW b \in parsed[n], Store(n, b)
      PROVE  Register!Next \/ UNCHANGED Register!vars
    BY <1>7, StoreAdvances
<1>8. CASE UNCHANGED vars
    BY <1>2, <1>8 DEF vars
<1> QED  BY <1>1, <1>2, <1>3, <1>4, <1>5, <1>6, <1>7, <1>8 DEF Next, Verify

\* Devices, wire and nodes together implement the abstract register.
THEOREM Refinement == Spec => ImplementsRegister
BY RegisterInit, RegisterStep, Invariance, PTL
   DEF Spec, ImplementsRegister, Register!Spec

-----------------------------------------------------------------------------
(* Devices that fold what they read and never choose a counter *)

Careful(d) == d \notin Careless /\ d \notin RawSigner

\* What a careful device signs: its first record, or one that replaces the
\* record it had.
LEMMA CarefulSigns ==
    ASSUME TypeOK, NEW d \in Device, Careful(d),
           Create(d) \/ Update(d) \/ Finalize(d) \/ TransferTo(d) \/ SignRaw(d)
    PROVE  \E p \in Bytes :
               /\ FromBytes(p)
               /\ p.sig.over = p.body /\ p.sig.signer = KeyOf[d]
               /\ wire' = wire \cup {p}
               /\ latest' = [latest EXCEPT ![d] = p]
               /\ UNCHANGED <<parsed, held, replies>>
               /\ latest[d] # NoPointer =>
                      /\ replaces(p.body, latest[d].body)
                      /\ p.body.counter > latest[d].body.counter
<1>1. 0 \in Counter /\ FinalCounter \in Counter /\ KeyOf[d] \in Owner
    BY CounterAssumption, KeyAssumption DEF Counter
<1>2. latest[d] # NoPointer =>
          latest[d].body \in Body /\ latest[d].body.owner \in Owner
    BY BytesFields, BodyFields DEF TypeOK
<1>3. CASE Create(d)
    <2>1. PICK t \in Target : Issue(d, KeyOf[d], 0, t)
        BY <1>3 DEF Create
    <2> QED  BY <1>1, <1>3, <2>1, IssueSends DEF Create
<1>4. ASSUME NEW c \in Counter, NEW t \in Target, latest[d] # NoPointer,
             ~ is_terminal(latest[d].body),
             c \in NextCounters(latest[d].body) \/ c = FinalCounter,
             Issue(d, latest[d].body.owner, c, t)
      PROVE  \E p \in Bytes :
                 /\ FromBytes(p)
                 /\ p.sig.over = p.body /\ p.sig.signer = KeyOf[d]
                 /\ wire' = wire \cup {p}
                 /\ latest' = [latest EXCEPT ![d] = p]
                 /\ UNCHANGED <<parsed, held, replies>>
                 /\ replaces(p.body, latest[d].body)
                 /\ p.body.counter > latest[d].body.counter
    <2>1. PICK p \in Bytes :
              /\ FromBytes(p)
              /\ p.body = encode_body(POINTER_FORMAT_VERSION,
                                      latest[d].body.owner, c, t)
              /\ p.sig.over = p.body /\ p.sig.signer = KeyOf[d]
              /\ wire' = wire \cup {p}
              /\ latest' = [latest EXCEPT ![d] = p]
              /\ UNCHANGED <<parsed, held, replies>>
        BY <1>2, <1>4, IssueSends
    <2>2. p.body \in Body /\ p.body.counter = c /\ p.body.owner = latest[d].body.owner
        BY <2>1, BytesFields DEF encode_body
    <2>3. /\ replaces(p.body, latest[d].body)
          /\ p.body.counter > latest[d].body.counter
        BY <1>2, <1>4, <2>2, SuccessorReplaces DEF is_terminal
    <2> QED  BY <2>1, <2>3
<1>5. CASE Update(d)
    <2>1. PICK c \in NextCounters(latest[d].body), t \in Target :
              Issue(d, latest[d].body.owner, c, t)
        BY <1>5 DEF Update
    <2>2. c \in Counter /\ ~ is_terminal(latest[d].body)
        BY <2>1, CounterAssumption DEF NextCounters, Counter, is_terminal
    <2> QED  BY <1>4, <1>5, <2>1, <2>2 DEF Update
<1>6. CASE Finalize(d)
    BY <1>1, <1>4, <1>6 DEF Finalize, finalize
<1>7. CASE TransferTo(d)
    BY <1>1, <1>4, <1>7, RecipientAssumption DEF TransferTo, finalize
<1>8. CASE SignRaw(d)
    BY <1>8 DEF SignRaw, Careful
<1> QED  BY <1>3, <1>5, <1>6, <1>7, <1>8

LEMMA LatestMovesUp ==
    TypeOK /\ [Next]_vars =>
        \A d \in Device \ (Careless \cup RawSigner) :
            latest[d] # NoPointer /\ latest'[d] # latest[d] =>
                replaces(latest'[d].body, latest[d].body)
<1> SUFFICES ASSUME TypeOK, [Next]_vars, NEW d \in Device, Careful(d),
                    latest[d] # NoPointer, latest'[d] # latest[d]
             PROVE  replaces(latest'[d].body, latest[d].body)
    BY DEF Careful
<1>1. ASSUME NEW e \in Device,
             Create(e) \/ Update(e) \/ Finalize(e) \/ TransferTo(e) \/ SignRaw(e)
      PROVE  replaces(latest'[d].body, latest[d].body)
    <2>1. PICK p \in Bytes : latest' = [latest EXCEPT ![e] = p]
        BY <1>1, DeviceStep
    <2>2. e = d
        BY <2>1 DEF TypeOK
    <2>3. PICK q \in Bytes : /\ latest' = [latest EXCEPT ![d] = q]
                             /\ replaces(q.body, latest[d].body)
        BY <1>1, <2>2, CarefulSigns
    <2> QED  BY <2>3 DEF TypeOK
<1>2. ASSUME NEW e \in Device, NEW b \in wire, Load(e, b)
      PROVE  replaces(latest'[d].body, latest[d].body)
    BY <1>2 DEF Load, TypeOK, Careful
<1>3. ASSUME NEW b \in wire, Damage(b)
      PROVE  FALSE
    BY <1>3 DEF Damage
<1>4. ASSUME NEW n \in Node, NEW b \in wire, Receive(n, b)
      PROVE  FALSE
    BY <1>4 DEF Receive, Recognise, Admit
<1>5. ASSUME NEW n \in Node, NEW b \in parsed[n], Verify(n, b)
      PROVE  FALSE
    BY <1>5 DEF Verify, Reject, Store, KeepHeld, Consume
<1> QED  BY <1>1, <1>2, <1>3, <1>4, <1>5 DEF Next, vars

\* Whatever update, finalize and transfer_to sign replaces what it was built
\* on, up to the last counter and into finality.
THEOREM Updates == Spec => UpdatesReplace
<1>1. TypeOK /\ [Next]_vars =>
          [\A d \in Device \ (Careless \cup RawSigner) :
              latest[d] # NoPointer /\ latest'[d] # latest[d] =>
                  replaces(latest'[d].body, latest[d].body)]_vars
    BY LatestMovesUp
<1> QED  BY <1>1, TypeCorrect, PTL DEF Spec, UpdatesReplace

-----------------------------------------------------------------------------
(* A sole writer *)

\* The device's record is above everything its key has signed.
LatestIsTop ==
    \A d \in Device : \A s \in Authored :
        s.owner = KeyOf[d] =>
            /\ latest[d] # NoPointer
            /\ s = latest[d].body \/ s.counter < latest[d].body.counter

LatestIsOwn ==
    \A d \in Device : latest[d] # NoPointer => latest[d].body.owner = KeyOf[d]

SoleInv == TypeOK /\ LatestIsTop /\ LatestIsOwn /\ NoFork

LEMMA SoleInit == Init => SoleInv
<1> SUFFICES ASSUME Init
             PROVE  SoleInv
    OBVIOUS
<1>1. Authored = {}
    BY DEF Init, Authored
<1>2. LatestIsOwn
    BY DEF Init, LatestIsOwn
<1> QED  BY <1>1, <1>2, InitTypeOK DEF SoleInv, LatestIsTop, NoFork

LEMMA AuthoredBodies == TypeOK => Authored \subseteq Body
BY BytesFields DEF TypeOK, Authored

LEMMA SoleStep ==
    ASSUME SoleWriter
    PROVE  SoleInv /\ [Next]_vars => SoleInv'
<1> SUFFICES ASSUME SoleInv, [Next]_vars
             PROVE  SoleInv'
    OBVIOUS
<1>1. TypeOK'
    BY StepTypeOK DEF SoleInv
<1>2. ASSUME Authored' = Authored, UNCHANGED latest
      PROVE  SoleInv'
    BY <1>1, <1>2 DEF SoleInv, LatestIsTop, LatestIsOwn, NoFork
<1>3. ASSUME UNCHANGED <<wire, latest>>
      PROVE  SoleInv'
    BY <1>2, <1>3 DEF Authored
<1>4. ASSUME NEW d \in Device,
             Create(d) \/ Update(d) \/ Finalize(d) \/ TransferTo(d) \/ SignRaw(d)
      PROVE  SoleInv'
    <2>1. PICK p \in Bytes :
              /\ FromBytes(p)
              /\ p.sig.over = p.body /\ p.sig.signer = KeyOf[d]
              /\ wire' = wire \cup {p}
              /\ latest' = [latest EXCEPT ![d] = p]
              /\ latest[d] # NoPointer =>
                     p.body.counter > latest[d].body.counter
        BY <1>4, CarefulSigns DEF SoleInv, SoleWriter, Careful
    <2>2. p # NoPointer /\ p.body \in Body /\ p.body.owner = KeyOf[d]
        BY <2>1, NoPointerAssumption, BytesFields DEF FromBytes, Verifies
    <2>3. Authored' = Authored \cup {p.body}
        BY <2>1 DEF Authored, FromBytes, Verifies
    <2>4. \A e \in Device : latest'[e] = IF e = d THEN p ELSE latest[e]
        BY <2>1 DEF SoleInv, TypeOK
    <2>5. ASSUME NEW s \in Authored, s.owner = KeyOf[d]
          PROVE  s.counter < p.body.counter
        <3>1. /\ latest[d] # NoPointer
              /\ s = latest[d].body \/ s.counter < latest[d].body.counter
            BY <2>5 DEF SoleInv, LatestIsTop
        <3>2. latest[d].body \in Body /\ s \in Body
            BY <3>1, BytesFields, AuthoredBodies DEF SoleInv, TypeOK
        <3> QED  BY <2>1, <2>2, <3>1, <3>2, BodyFields
    <2>6. LatestIsTop'
        <3> SUFFICES ASSUME NEW e \in Device, NEW s \in Authored',
                            s.owner = KeyOf[e]
                     PROVE  /\ latest'[e] # NoPointer
                            /\ \/ s = latest'[e].body
                               \/ s.counter < latest'[e].body.counter
            BY DEF LatestIsTop
        <3>1. CASE e = d
            BY <2>2, <2>3, <2>4, <2>5, <3>1
        <3>2. CASE e # d
            <4>1. s # p.body
                BY <2>2, <3>2 DEF SoleWriter
            <4> QED  BY <2>3, <2>4, <3>2, <4>1 DEF SoleInv, LatestIsTop
        <3> QED  BY <3>1, <3>2
    <2>7. LatestIsOwn'
        BY <2>2, <2>4 DEF SoleInv, LatestIsOwn
    <2>8. NoFork'
        <3>1. ASSUME NEW s \in Authored, s.owner = p.body.owner
              PROVE  s.counter # p.body.counter
            BY <2>2, <2>5, <3>1, AuthoredBodies, BodyFields DEF SoleInv
        <3> QED  BY <2>3, <3>1 DEF SoleInv, NoFork
    <2> QED  BY <1>1, <2>6, <2>7, <2>8 DEF SoleInv
<1>5. ASSUME NEW d \in Device, NEW b \in wire, Load(d, b)
      PROVE  FALSE
    <2>1. b.body \in Authored /\ b.body.owner = KeyOf[d]
        BY <1>5 DEF Load, FromBytes, Verifies, Authored
    <2>2. /\ latest[d] # NoPointer
          /\ \/ b.body = latest[d].body
             \/ b.body.counter < latest[d].body.counter
        BY <2>1 DEF SoleInv, LatestIsTop
    <2>3. replaces(b.body, latest[d].body)
        BY <1>5, <2>2 DEF Load, SoleWriter
    <2>4. latest[d].body \in Body /\ b.body \in Body
        BY <2>1, <2>2, BytesFields, AuthoredBodies DEF SoleInv, TypeOK
    <2>5. replaces(b.body, latest[d].body) => b.body.counter >= latest[d].body.counter
        BY <2>4, BodyFields DEF replaces, OutRanks
    <2>6. b.body # latest[d].body
        BY <2>3, <2>4, ReplacesIsAStrictOrder
    <2> QED  BY <2>2, <2>3, <2>4, <2>5, <2>6, BodyFields
<1>6. ASSUME NEW b \in wire, Damage(b)
      PROVE  SoleInv'
    <2>1. PICK f \in Forgery : wire' = wire \cup
              {[shape |-> f.shape, body |-> f.body, sig |-> b.sig]}
        BY <1>6 DEF Damage, Send
    <2>2. Authored' = Authored
        BY <2>1 DEF Authored
    <2> QED  BY <1>2, <1>6, <2>2 DEF Damage
<1>7. ASSUME NEW n \in Node, NEW b \in wire, Receive(n, b)
      PROVE  SoleInv'
    BY <1>3, <1>7 DEF Receive, Recognise, Admit
<1>8. ASSUME NEW n \in Node, NEW b \in parsed[n], Verify(n, b)
      PROVE  SoleInv'
    BY <1>3, <1>8 DEF Verify, Reject, Store, KeepHeld, Consume
<1>9. CASE UNCHANGED vars
    BY <1>3, <1>9 DEF vars
<1> QED  BY <1>4, <1>5, <1>6, <1>7, <1>8, <1>9 DEF Next

\* With one careful device per key there is one state per counter, and so one
\* final state: the refusal in finalize is enough for such an owner.
THEOREM SoleWriterNeverForks ==
    ASSUME SoleWriter
    PROVE  Spec => []NoFork
<1>1. SoleInv /\ [Next]_vars => SoleInv'
    BY SoleStep
<1>2. SoleInv => NoFork
    BY DEF SoleInv
<1> QED  BY <1>1, <1>2, SoleInit, PTL DEF Spec

\* So readers redirected by a transfer are all redirected to one pointer.
LEMMA NoForkOneRedirect == IInv /\ NoFork => OneRedirect
<1> SUFFICES ASSUME IInv, NoFork, NEW n \in Node, NEW m \in Node, NEW a \in Name,
                    held[n][a] # NoPointer, transferred_to(Holding(n, a)) # {},
                    held[m][a] # NoPointer, transferred_to(Holding(m, a)) # {}
             PROVE  transferred_to(Holding(n, a)) = transferred_to(Holding(m, a))
    BY DEF OneRedirect
<1>1. /\ Holding(n, a) \in Authored /\ Holding(m, a) \in Authored
      /\ pointer_address(Holding(n, a)) = pointer_address(Holding(m, a))
    BY IInvAuthentic DEF HeldAuthentic
<1>2. Holding(n, a) \in Body /\ Holding(m, a) \in Body
    BY <1>1, AuthoredBodies DEF IInv
<1>3. Holding(n, a).owner = Holding(m, a).owner
    BY <1>1, <1>2, BodyFields, AddressAssumption DEF pointer_address
<1>4. /\ Holding(n, a).counter = FinalCounter
      /\ Holding(m, a).counter = FinalCounter
    BY DEF transferred_to, is_terminal
<1> QED  BY <1>1, <1>3, <1>4 DEF NoFork

\* With one device for a key, readers at any two nodes are redirected to the same
\* place, or not yet (transferred_to of what the nodes hold).
THEOREM SoleWriterRedirectsOnce ==
    ASSUME SoleWriter
    PROVE  Spec => []OneRedirect
BY SoleWriterNeverForks, NoForkOneRedirect, Invariance, PTL

=============================================================================
