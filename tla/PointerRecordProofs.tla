------------------------ MODULE PointerRecordProofs ------------------------
(***************************************************************************)
(* The merge rule is an order.  These are the facts pointer.rs relies on in *)
(* its comments on PointerState::replaces, for every final counter, every   *)
(* set of targets and every set of owners.                                  *)
(***************************************************************************)
EXTENDS PointerRecord, Sequences, WellFoundedInduction, TLAPS

LEMMA TargetFields ==
    \A t \in Target : t.kind_tag \in Nat /\ t.address \in Nat
                      /\ t = [kind_tag |-> t.kind_tag, address |-> t.address]
<1> SUFFICES ASSUME NEW t \in Target
             PROVE  /\ t.kind_tag \in Nat /\ t.address \in Nat
                    /\ t = [kind_tag |-> t.kind_tag, address |-> t.address]
    OBVIOUS
<1>1. t \in [kind_tag : 0..255, address : Name]
    BY TargetAssumption
<1>2. t.kind_tag \in 0..255 /\ t.address \in Name
    BY <1>1
<1>3. t.kind_tag \in Nat
    BY <1>2
<1>4. t.address \in Nat
    BY <1>2, NameAssumption
<1>5. t = [kind_tag |-> t.kind_tag, address |-> t.address]
    BY <1>1
<1> QED  BY <1>3, <1>4, <1>5

LEMMA BodyFields ==
    \A s \in Body : /\ s.version \in Version /\ s.owner \in Owner
                    /\ s.counter \in Nat /\ s.counter <= FinalCounter
                    /\ s.target \in Target
BY CounterAssumption DEF Body, Counter

\* The target bytes are ordered strictly and totally.
LEMMA TargetOrder ==
    \A t, u, v \in Target :
        /\ ~ TargetBytesBelow(t, t)
        /\ TargetBytesBelow(t, u) => ~ TargetBytesBelow(u, t)
        /\ TargetBytesBelow(t, u) /\ TargetBytesBelow(u, v) =>
               TargetBytesBelow(t, v)
        /\ t # u => TargetBytesBelow(t, u) \/ TargetBytesBelow(u, t)
<1> SUFFICES ASSUME NEW t \in Target, NEW u \in Target, NEW v \in Target
             PROVE  /\ ~ TargetBytesBelow(t, t)
                    /\ TargetBytesBelow(t, u) => ~ TargetBytesBelow(u, t)
                    /\ TargetBytesBelow(t, u) /\ TargetBytesBelow(u, v) =>
                           TargetBytesBelow(t, v)
                    /\ t # u => TargetBytesBelow(t, u) \/ TargetBytesBelow(u, t)
    OBVIOUS
<1>1. /\ t.kind_tag \in Nat /\ u.kind_tag \in Nat /\ v.kind_tag \in Nat
      /\ t.address \in Nat /\ u.address \in Nat /\ v.address \in Nat
    BY TargetFields
<1>2. t # u => t.kind_tag # u.kind_tag \/ t.address # u.address
    BY TargetFields
<1> QED  BY <1>1, <1>2, SMT DEF TargetBytesBelow

\* MergeRank is a strict order, and tells any two states of one owner and one
\* version apart.
LEMMA OutRanksOrder ==
    \A s, t, u \in Body :
        /\ ~ OutRanks(s, s)
        /\ OutRanks(s, t) => ~ OutRanks(t, s)
        /\ OutRanks(s, t) /\ OutRanks(t, u) => OutRanks(s, u)
<1> SUFFICES ASSUME NEW s \in Body, NEW t \in Body, NEW u \in Body
             PROVE  /\ ~ OutRanks(s, s)
                    /\ OutRanks(s, t) => ~ OutRanks(t, s)
                    /\ OutRanks(s, t) /\ OutRanks(t, u) => OutRanks(s, u)
    OBVIOUS
<1>1. /\ s.counter \in Nat /\ t.counter \in Nat /\ u.counter \in Nat
      /\ s.target \in Target /\ t.target \in Target /\ u.target \in Target
    BY BodyFields
<1>2. ~ OutRanks(s, s)
    BY <1>1, TargetOrder DEF OutRanks
<1>3. OutRanks(s, t) => ~ OutRanks(t, s)
    BY <1>1, TargetOrder DEF OutRanks
<1>4. OutRanks(s, t) /\ OutRanks(t, u) => OutRanks(s, u)
    <2>1. CASE s.counter > t.counter \/ t.counter > u.counter
        BY <1>1, <2>1 DEF OutRanks
    <2>2. CASE ~ (s.counter > t.counter \/ t.counter > u.counter)
        BY <1>1, <2>2, TargetOrder DEF OutRanks
    <2> QED  BY <2>1, <2>2
<1> QED  BY <1>2, <1>3, <1>4

LEMMA OutRanksTotal ==
    \A s, t \in Body :
        pointer_address(s) = pointer_address(t) /\ s.version = t.version /\ s # t
        => OutRanks(s, t) \/ OutRanks(t, s)
<1> SUFFICES ASSUME NEW s \in Body, NEW t \in Body,
                    pointer_address(s) = pointer_address(t),
                    s.version = t.version, s # t
             PROVE  OutRanks(s, t) \/ OutRanks(t, s)
    OBVIOUS
<1>1. /\ s.counter \in Nat /\ t.counter \in Nat
      /\ s.target \in Target /\ t.target \in Target
      /\ s.owner = t.owner
    BY BodyFields, AddressAssumption DEF pointer_address
<1>2. s.counter # t.counter \/ s.target # t.target
    BY <1>1 DEF Body
<1> QED  BY <1>1, <1>2, TargetOrder DEF OutRanks

\* PointerState::replaces is a strict partial order, "never both ways round,
\* and transitive", on states of any owners and versions.
THEOREM ReplacesIsAStrictOrder ==
    \A s, t, u \in Body :
        /\ ~ replaces(s, s)
        /\ replaces(s, t) => ~ replaces(t, s)
        /\ replaces(s, t) /\ replaces(t, u) => replaces(s, u)
BY OutRanksOrder DEF replaces

\* One owner's states, of one format version, are told apart by the merge
\* rule unless both are final: the only fork replaces leaves unordered.
THEOREM ReplacesIsTotalBelowTheFinalCounter ==
    \A s, t \in Body :
        /\ pointer_address(s) = pointer_address(t)
        /\ s.version = t.version
        /\ s # t
        => \/ replaces(s, t)
           \/ replaces(t, s)
           \/ is_terminal(s) /\ is_terminal(t)
<1> SUFFICES ASSUME NEW s \in Body, NEW t \in Body,
                    pointer_address(s) = pointer_address(t),
                    s.version = t.version, s # t
             PROVE  \/ replaces(s, t)
                    \/ replaces(t, s)
                    \/ is_terminal(s) /\ is_terminal(t)
    OBVIOUS
<1>1. /\ s.counter \in Nat /\ t.counter \in Nat
      /\ s.counter <= FinalCounter /\ t.counter <= FinalCounter
    BY BodyFields
<1>2. OutRanks(s, t) \/ OutRanks(t, s)
    BY OutRanksTotal
<1>3. OutRanks(s, t) /\ is_terminal(t) => is_terminal(s)
    BY <1>1, CounterAssumption DEF OutRanks, is_terminal
<1>4. OutRanks(t, s) /\ is_terminal(s) => is_terminal(t)
    BY <1>1, CounterAssumption DEF OutRanks, is_terminal
<1> QED  BY <1>2, <1>3, <1>4 DEF replaces

\* What update and finalize sign replaces the record they were called on:
\* one past it, or the final counter, whatever the targets.
THEOREM SuccessorReplaces ==
    \A s, t \in Body :
        /\ s.owner = t.owner
        /\ ~ is_terminal(t)
        /\ s.counter \in NextCounters(t) \/ is_terminal(s)
        => replaces(s, t) /\ s.counter > t.counter
<1> SUFFICES ASSUME NEW s \in Body, NEW t \in Body, s.owner = t.owner,
                    ~ is_terminal(t),
                    s.counter \in NextCounters(t) \/ is_terminal(s)
             PROVE  replaces(s, t) /\ s.counter > t.counter
    OBVIOUS
<1>1. s.counter > t.counter
    BY BodyFields, CounterAssumption DEF NextCounters, is_terminal, Counter
<1> QED  BY <1>1 DEF replaces, OutRanks, pointer_address

-----------------------------------------------------------------------------
(* Folding with replaces *)

\* What a reader or a node keeps of s when t arrives.
Merge(s, t) == IF replaces(t, s) THEN t ELSE s

\* Among the states of one address replaces compares ranks, and all final
\* states rank alike: where u replaces s, no t is level with both.
LEMMA ReplacesIsAWeakOrder ==
    \A s, t, u \in Body :
        /\ pointer_address(s) = pointer_address(t)
        /\ pointer_address(t) = pointer_address(u)
        /\ replaces(u, s)
        => replaces(u, t) \/ replaces(t, s)
<1> SUFFICES ASSUME NEW s \in Body, NEW t \in Body, NEW u \in Body,
                    pointer_address(s) = pointer_address(t),
                    pointer_address(t) = pointer_address(u),
                    replaces(u, s), ~ replaces(u, t)
             PROVE  replaces(t, s)
    OBVIOUS
<1>1. /\ s.counter \in Nat /\ t.counter \in Nat /\ u.counter \in Nat
      /\ s.counter <= FinalCounter
      /\ s.target \in Target /\ t.target \in Target /\ u.target \in Target
    BY BodyFields
<1>2. OutRanks(u, s) /\ ~ is_terminal(s)
    BY DEF replaces
<1>3. CASE is_terminal(t)
    BY <1>1, <1>2, <1>3, CounterAssumption DEF replaces, OutRanks, is_terminal
<1>4. CASE ~ OutRanks(u, t)
    <2>1. u.counter >= s.counter /\ t.counter >= u.counter
        BY <1>1, <1>2, <1>4 DEF OutRanks
    <2>2. CASE t.counter > s.counter
        BY <1>2, <2>2 DEF replaces, OutRanks
    <2>3. CASE t.counter = s.counter
        <3>1. /\ TargetBytesBelow(u.target, s.target)
              /\ ~ TargetBytesBelow(u.target, t.target)
            BY <1>1, <1>2, <1>4, <2>1, <2>3 DEF OutRanks
        <3>2. TargetBytesBelow(t.target, s.target)
            BY <1>1, <3>1, TargetOrder
        <3> QED  BY <1>2, <2>3, <3>2 DEF replaces, OutRanks
    <2> QED  BY <1>1, <2>1, <2>2, <2>3
<1> QED  BY <1>3, <1>4 DEF replaces

\* Batches fold as their records do: merging is idempotent and associative on
\* the states of one address, of any version, final states included.
THEOREM MergingIsAssociative ==
    \A s, t, u \in Body :
        /\ pointer_address(s) = pointer_address(t)
        /\ pointer_address(t) = pointer_address(u)
        => /\ Merge(s, s) = s
           /\ Merge(Merge(s, t), u) = Merge(s, Merge(t, u))
<1> SUFFICES ASSUME NEW s \in Body, NEW t \in Body, NEW u \in Body,
                    pointer_address(s) = pointer_address(t),
                    pointer_address(t) = pointer_address(u)
             PROVE  /\ Merge(s, s) = s
                    /\ Merge(Merge(s, t), u) = Merge(s, Merge(t, u))
    OBVIOUS
<1>1. Merge(s, s) = s
    BY DEF Merge
<1>2. CASE replaces(t, s) /\ replaces(u, t)
    <2>1. replaces(u, s)
        BY <1>2, ReplacesIsAStrictOrder
    <2> QED  BY <1>2, <2>1 DEF Merge
<1>3. CASE replaces(t, s) /\ ~ replaces(u, t)
    BY <1>3 DEF Merge
<1>4. CASE ~ replaces(t, s) /\ replaces(u, t)
    BY <1>4 DEF Merge
<1>5. CASE ~ replaces(t, s) /\ ~ replaces(u, t)
    <2>1. ~ replaces(u, s)
        BY <1>5, ReplacesIsAWeakOrder
    <2> QED  BY <1>5, <2>1 DEF Merge
<1> QED  BY <1>1, <1>2, <1>3, <1>4, <1>5

\* And the order of arrival does not matter, for states of one address and one
\* version that are not two different final states: readers that saw the same
\* records agree.  For two different final states it does, always: whichever
\* came first is kept.
THEOREM MergingCommutesButForRivalFinals ==
    \A s, t \in Body :
        /\ pointer_address(s) = pointer_address(t)
        /\ s.version = t.version
        => (Merge(s, t) = Merge(t, s) <=>
               ~ (s # t /\ is_terminal(s) /\ is_terminal(t)))
<1> SUFFICES ASSUME NEW s \in Body, NEW t \in Body,
                    pointer_address(s) = pointer_address(t),
                    s.version = t.version, s # t
             PROVE  Merge(s, t) = Merge(t, s) <=>
                        ~ (is_terminal(s) /\ is_terminal(t))
    OBVIOUS
<1>1. CASE is_terminal(s) /\ is_terminal(t)
    BY <1>1 DEF Merge, replaces
<1>2. CASE ~ (is_terminal(s) /\ is_terminal(t))
    <2>1. replaces(s, t) \/ replaces(t, s)
        BY <1>2, ReplacesIsTotalBelowTheFinalCounter
    <2>2. ~ (replaces(s, t) /\ replaces(t, s))
        BY ReplacesIsAStrictOrder
    <2> QED  BY <1>2, <2>1, <2>2 DEF Merge
<1> QED  BY <1>1, <1>2

\* A reader that keeps what Merge leaves of one record after another: kept[i]
\* is what it has after received[i].
IsFold(received, kept) ==
    /\ received \in Seq(Body) /\ kept \in Seq(Body)
    /\ received # <<>> /\ Len(kept) = Len(received)
    /\ kept[1] = received[1]
    /\ \A i \in 2..Len(received) : kept[i] = Merge(kept[i - 1], received[i])

\* One owner's records, of this version, without two different final states.
OnePointer(S) ==
    \A s, t \in S :
        /\ pointer_address(s) = pointer_address(t)
        /\ s.version = t.version
        /\ is_terminal(s) /\ is_terminal(t) => s = t

Members(seq) == {seq[i] : i \in 1..Len(seq)}

LessThan == {pair \in Nat \X Nat : pair[1] < pair[2]}

\* Induction on the natural numbers, as the least member of a set.
LEMMA LeastMember ==
    ASSUME NEW T, T \subseteq Nat, T # {}
    PROVE  \E m \in T : \A k \in T : m <= k
<1>1. IsWellFoundedOn(LessThan, Nat)
    BY NatLessThanWellFounded, Zenon DEF OpToRel, LessThan
<1>2. PICK m \in T : \A k \in T : ~ (<<k, m>> \in LessThan)
    BY <1>1, WFMin
<1>3. ASSUME NEW k \in T
      PROVE  m <= k
    <2>1. ~ (k < m)
        BY <1>2 DEF LessThan
    <2>2. k \in Nat /\ m \in Nat
        OBVIOUS
    <2> QED  BY <2>1, <2>2
<1> QED  BY <1>3

\* What the reader has after the first i records is one of them and replaces
\* every other.
Newest(received, kept, i) ==
    /\ \E j \in 1..i : kept[i] = received[j]
    /\ \A j \in 1..i : kept[i] = received[j] \/ replaces(kept[i], received[j])

LEMMA FoldKeepsTheNewest ==
    ASSUME NEW received, NEW kept, IsFold(received, kept),
           OnePointer(Members(received))
    PROVE  \A i \in 1..Len(received) : Newest(received, kept, i)
<1> DEFINE bad == {i \in 1..Len(received) : ~ Newest(received, kept, i)}
<1> SUFFICES ASSUME bad # {}
             PROVE  FALSE
    OBVIOUS
<1>1. Len(received) \in Nat /\ bad \subseteq Nat
    BY DEF IsFold
<1>2. PICK m \in bad : \A k \in bad : m <= k
    BY <1>1, LeastMember
<1>3. m \in 1..Len(received) /\ ~ Newest(received, kept, m)
    OBVIOUS
<1>4. m # 1
    BY <1>3 DEF Newest, IsFold
<1>5. m \in 2..Len(received) /\ m - 1 \in 1..Len(received) /\ m - 1 \notin bad
    BY <1>1, <1>2, <1>3, <1>4
<1>6. Newest(received, kept, m - 1)
    BY <1>5
<1>7. /\ kept[m] = Merge(kept[m - 1], received[m])
      /\ received[m] \in Body /\ kept[m - 1] \in Body
      /\ \A j \in 1..Len(received) : received[j] \in Body
    BY <1>5 DEF IsFold
<1>8. PICK p \in 1..(m - 1) : kept[m - 1] = received[p]
    BY <1>6 DEF Newest
<1>9. received[m] \in Members(received) /\ kept[m - 1] \in Members(received)
    BY <1>1, <1>3, <1>5, <1>8 DEF Members
<1>10. \E j \in 1..m : kept[m] = received[j]
    BY <1>1, <1>3, <1>7, <1>8 DEF Merge
<1>11. ASSUME NEW j \in 1..m
       PROVE  kept[m] = received[j] \/ replaces(kept[m], received[j])
    <2>1. received[j] \in Body /\ (j = m \/ j \in 1..(m - 1))
        BY <1>1, <1>3, <1>5, <1>7
    <2>2. j # m => kept[m - 1] = received[j] \/ replaces(kept[m - 1], received[j])
        BY <1>6, <2>1 DEF Newest
    <2>3. CASE replaces(received[m], kept[m - 1])
        BY <1>7, <2>1, <2>2, <2>3, ReplacesIsAStrictOrder DEF Merge
    <2>4. CASE ~ replaces(received[m], kept[m - 1])
        <3>1. kept[m - 1] = received[m] \/ replaces(kept[m - 1], received[m])
            BY <1>7, <1>9, <2>4, ReplacesIsTotalBelowTheFinalCounter DEF OnePointer
        <3> QED  BY <1>7, <2>1, <2>2, <2>4, <3>1 DEF Merge
    <2> QED  BY <2>3, <2>4
<1> QED  BY <1>3, <1>10, <1>11 DEF Newest

\* Two readers that folded the same records of one pointer, each in its own
\* order and with its own repetitions, end with the same one, and it replaces
\* every other.
THEOREM FoldsAgree ==
    ASSUME NEW received, NEW kept, IsFold(received, kept),
           NEW received2, NEW kept2, IsFold(received2, kept2),
           Members(received) = Members(received2),
           OnePointer(Members(received))
    PROVE  /\ kept[Len(kept)] = kept2[Len(kept2)]
           /\ kept[Len(kept)] \in Members(received)
           /\ \A s \in Members(received) \ {kept[Len(kept)]} :
                  replaces(kept[Len(kept)], s)
<1>1. /\ Len(received) \in 1..Len(received) /\ Len(kept) = Len(received)
      /\ Len(received2) \in 1..Len(received2) /\ Len(kept2) = Len(received2)
    BY DEF IsFold
<1>2. Members(received) \subseteq Body
    BY DEF IsFold, Members
<1>3. /\ kept[Len(kept)] \in Members(received)
      /\ \A s \in Members(received) \ {kept[Len(kept)]} :
             replaces(kept[Len(kept)], s)
    BY <1>1, FoldKeepsTheNewest DEF Newest, Members
<1>4. /\ kept2[Len(kept2)] \in Members(received2)
      /\ \A s \in Members(received2) \ {kept2[Len(kept2)]} :
             replaces(kept2[Len(kept2)], s)
    <2>1. OnePointer(Members(received2))
        OBVIOUS
    <2>2. \A i \in 1..Len(received2) : Newest(received2, kept2, i)
        BY <2>1, FoldKeepsTheNewest
    <2> QED  BY <1>1, <2>2 DEF Newest, Members
<1>5. kept[Len(kept)] = kept2[Len(kept2)]
    BY <1>2, <1>3, <1>4, ReplacesIsAStrictOrder
<1> QED  BY <1>3, <1>5

-----------------------------------------------------------------------------
(* Parsing and verification *)

\* The bytes from_bytes accepts are exactly those an owner's own key signed
\* over the body they carry, in this format version: nothing else becomes a
\* Pointer, and everything Pointer::sign can make is read back.
THEOREM AcceptedIsExactlySigned ==
    \A b \in Bytes :
        FromBytes(b) <=>
            \E o \in Owner, c \in Counter, t \in Target, x \in Nonce :
                b = Sign(o, o, c, t, x)
<1> SUFFICES ASSUME NEW b \in Bytes
             PROVE  FromBytes(b) <=>
                        \E o \in Owner, c \in Counter, t \in Target, x \in Nonce :
                            b = Sign(o, o, c, t, x)
    OBVIOUS
<1>1. ASSUME FromBytes(b)
      PROVE  \E o \in Owner, c \in Counter, t \in Target, x \in Nonce :
                 b = Sign(o, o, c, t, x)
    <2>1. /\ b.shape = "exact" /\ b.body.version = POINTER_FORMAT_VERSION
          /\ b.sig.signer = b.body.owner /\ b.sig.over = b.body
        BY <1>1 DEF FromBytes, Parses, Verifies, Bytes, Shape
    <2>2. b.body \in Body /\ b.sig \in Signature
        BY DEF Bytes
    <2>3. b.body = encode_body(POINTER_FORMAT_VERSION, b.body.owner,
                               b.body.counter, b.body.target)
        BY <2>1, <2>2 DEF encode_body, Body
    <2>4. b.sig = [signer |-> b.body.owner, over |-> b.body, nonce |-> b.sig.nonce]
        BY <2>1, <2>2 DEF Signature
    <2>5. b = [shape |-> "exact", body |-> b.body, sig |-> b.sig]
        BY <2>1 DEF Bytes
    <2>6. b = Sign(b.body.owner, b.body.owner, b.body.counter, b.body.target,
                   b.sig.nonce)
        BY <2>3, <2>4, <2>5 DEF Sign
    <2>7. /\ b.body.owner \in Owner /\ b.body.counter \in Counter
          /\ b.body.target \in Target /\ b.sig.nonce \in Nonce
        BY <2>2 DEF Body, Signature
    <2> QED  BY <2>6, <2>7
<1>2. ASSUME NEW o \in Owner, NEW c \in Counter, NEW t \in Target,
             NEW x \in Nonce, b = Sign(o, o, c, t, x)
      PROVE  FromBytes(b)
    BY <1>2 DEF Sign, FromBytes, Parses, Verifies, encode_body
<1> QED  BY <1>1, <1>2

=============================================================================
