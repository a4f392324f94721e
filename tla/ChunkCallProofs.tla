-------------------------- MODULE ChunkCallProofs --------------------------
(***************************************************************************)
(* ChunkCall for any number of calls, peers, timeouts and queue capacity.   *)
(* The invariant follows an event from the peer to the caller: what is on   *)
(* the wire answers the call it was made for, what is in a queue came off   *)
(* the wire or is foreign, and an answer that reached a running call is in  *)
(* its queue until it is read.                                              *)
(***************************************************************************)
EXTENDS ChunkCall, TLAPS

\* A response carries the peer and the id of the call it answers.
WireEchoes ==
    \A e \in wire :
        /\ e.re \in requests
        /\ e.source = TargetOf[e.re] /\ e.id = IdOf[e.re] /\ e.topic = "chunk"

InboxReal ==
    \A c \in Call : \A i \in DOMAIN inbox[c] : inbox[c][i] \in wire \cup Foreign

\* Where a call is agrees with whether it has asked and how it ended.
PhaseAgrees ==
    \A c \in Call :
        /\ pc[c] = "idle" <=> c \notin requests
        /\ pc[c] # "done" <=> outcome[c] = Pending

\* An answer that reached a running call waits in its queue, unless the call
\* has read it, failed to send, or overrun.
Waits(c) ==
    \E i \in DOMAIN inbox[c] :
        inbox[c][i].re = c /\ inbox[c][i].body \in {"success", "failure"}

AnswersWait ==
    \A c \in reached \ overrun :
        c \in requests /\ (outcome[c] \in {Pending, TimeoutError} => Waits(c))

IInv ==
    /\ TypeOK
    /\ WireEchoes
    /\ InboxReal
    /\ PhaseAgrees
    /\ AnswerIsMine
    /\ AnswersWait

LEMMA EventFields ==
    \A e \in Event : e.body \in ResponseBody /\ e.re \in Call \cup {NoCall}
BY DEF Event

LEMMA OutcomesDiffer ==
    /\ Pending # SendError /\ Pending # TimeoutError /\ SendError # TimeoutError
    /\ \A b \in ResponseBody :
           /\ Answered(b) # Pending /\ Answered(b) # SendError
           /\ Answered(b) # TimeoutError
           /\ Answered(b).kind = "answered" /\ Answered(b).answer = b
    /\ Pending.kind # "answered" /\ SendError.kind # "answered"
    /\ TimeoutError.kind # "answered"
<1>1. /\ Pending.kind = "pending" /\ SendError.kind = "send_error"
      /\ TimeoutError.kind = "timeout_error"
    BY DEF Pending, SendError, TimeoutError
<1>2. \A b \in ResponseBody :
          Answered(b).kind = "answered" /\ Answered(b).answer = b
    BY DEF Answered
<1> QED  BY <1>1, <1>2

LEMMA InitIInv == Init => IInv
<1> SUFFICES ASSUME Init
             PROVE  IInv
    OBVIOUS
<1>1. TypeOK
  <2>1. <<>> \in Seq(Event)
    OBVIOUS
  <2>2. inbox \in [Call -> Seq(Event)]
    BY <2>1 DEF Init
  <2>3. pc \in [Call -> {"idle", "sending", "check", "poll", "done"}]
    BY DEF Init
  <2>4. outcome \in [Call -> {Pending, SendError, TimeoutError}
                             \cup {Answered(b) : b \in ResponseBody}]
    BY Zenon DEF Init
  <2>5. left \in [Call -> Nat] /\ lagged \in [Call -> BOOLEAN]
    BY DEF Init
  <2>6. /\ requests \subseteq Call /\ wire \subseteq Event /\ closed \in BOOLEAN
        /\ reached \subseteq Call /\ overrun \subseteq Call
    BY DEF Init
  <2> QED  BY <2>2, <2>3, <2>4, <2>5, <2>6, Zenon DEF TypeOK
<1>2. WireEchoes /\ InboxReal /\ AnswersWait
    BY DEF Init, WireEchoes, InboxReal, AnswersWait
<1>3. PhaseAgrees
    BY DEF Init, PhaseAgrees
<1>4. AnswerIsMine
    BY OutcomesDiffer DEF Init, AnswerIsMine
<1> QED  BY <1>1, <1>2, <1>3, <1>4 DEF IInv

\* A response that a call accepts answers that call.
LEMMA AcceptedIsMine ==
    ASSUME IInv, NEW c \in Call, NEW e \in wire \cup Foreign, Accepts(c, e)
    PROVE  e.re = c /\ e \in wire /\ e.body \in Given(c) \ {"garbage", "other_variant"}
<1>1. e \notin Foreign
    BY ForeignIdAssumption DEF Accepts
<1>2. e \in wire /\ e.re \in Call
    BY <1>1 DEF IInv, WireEchoes, TypeOK
<1>3. TargetOf[e.re] = TargetOf[c] /\ IdOf[e.re] = IdOf[c]
    BY <1>2 DEF IInv, WireEchoes, Accepts
<1>4. e.re = c
    BY <1>2, <1>3, CallAssumption
<1> QED  BY <1>2, <1>4 DEF Given, Accepts

\* An answer to a call that resolves it is accepted.
LEMMA MineIsAccepted ==
    ASSUME IInv, NEW c \in Call, NEW e \in wire \cup Foreign, e.re = c,
           e.body \in {"success", "failure"}
    PROVE  Accepts(c, e)
<1>1. e \in wire
    BY ForeignAssumption, AbsentAssumption
<1> QED  BY <1>1 DEF IInv, WireEchoes, Accepts

-----------------------------------------------------------------------------
(* Each step keeps the invariant *)

\* The steps that read nothing: the queues, the wire and the history stay.
LEMMA StepInPlace ==
    ASSUME IInv, NEW c \in Call,
           \/ Begin(c) \/ SendFails(c) \/ SendReturns(c)
           \/ CheckDeadline(c) \/ PollLagged(c) \/ PollEnds(c)
    PROVE  IInv'
<1> USE DEF IInv
<1>1. /\ UNCHANGED <<inbox, wire, closed, reached, overrun>>
      /\ requests \subseteq requests' /\ requests' \subseteq requests \cup {c}
    BY DEF Begin, SendFails, SendReturns, CheckDeadline, PollLagged, PollEnds,
           world, history
<1>2. /\ pc' \in [Call -> {"idle", "sending", "check", "poll", "done"}]
      /\ \A d \in Call \ {c} : pc'[d] = pc[d]
    BY DEF TypeOK, Begin, SendFails, SendReturns, CheckDeadline, PollLagged,
           PollEnds, Goto, End
<1>3. \/ outcome' = outcome
      \/ outcome' = [outcome EXCEPT ![c] = SendError] /\ pc[c] = "sending"
      \/ outcome' = [outcome EXCEPT ![c] = TimeoutError]
    BY DEF Begin, SendFails, SendReturns, CheckDeadline, PollLagged, PollEnds, End
<1>4. outcome' \in [Call -> {Pending, SendError, TimeoutError}
                            \cup {Answered(b) : b \in ResponseBody}]
    BY <1>3, Zenon DEF TypeOK
<1>5. left' \in [Call -> Nat]
    BY CallAssumption DEF TypeOK, Begin, SendFails, SendReturns, CheckDeadline,
       PollLagged, PollEnds, TimeLeft
<1>6. lagged' \in [Call -> BOOLEAN]
    BY DEF TypeOK, Begin, SendFails, SendReturns, CheckDeadline, PollLagged, PollEnds
<1>7. TypeOK'
  <2>1. requests' \subseteq Call
    BY <1>1 DEF TypeOK
  <2> QED  BY <1>1, <1>2, <1>4, <1>5, <1>6, <2>1 DEF TypeOK
<1>8. WireEchoes'
    BY <1>1 DEF WireEchoes
<1>9. InboxReal'
    BY <1>1 DEF InboxReal
<1>10. PhaseAgrees'
  <2>1. /\ pc'[c] = "idle" <=> c \notin requests'
        /\ pc'[c] # "done" <=> outcome'[c] = Pending
    BY OutcomesDiffer DEF TypeOK, PhaseAgrees, Begin, SendFails, SendReturns,
       CheckDeadline, PollLagged, PollEnds, Goto, End, world
  <2>2. \A d \in Call \ {c} : outcome'[d] = outcome[d]
    BY <1>3 DEF TypeOK
  <2> QED  BY <2>1, <2>2, <1>1, <1>2 DEF PhaseAgrees
<1>11. AnswerIsMine'
  <2>1. \A d \in Call : Given(d)' = Given(d)
    BY <1>1 DEF Given
  <2>2. \A d \in Call :
            outcome'[d] \in {outcome[d], SendError, TimeoutError}
    BY <1>3 DEF TypeOK
  <2> QED  BY <2>1, <2>2, OutcomesDiffer DEF AnswerIsMine
<1>12. AnswersWait'
  <2>1. \A d \in Call : Waits(d)' = Waits(d)
    BY <1>1 DEF Waits
  <2>2. \A d \in Call : outcome[d] # outcome'[d] =>
            outcome'[d] = SendError \/ outcome[d] = Pending
    BY OutcomesDiffer DEF TypeOK, PhaseAgrees, Begin, SendFails, SendReturns,
       CheckDeadline, PollLagged, PollEnds, End
  <2>3. reached \subseteq Call
    BY DEF TypeOK
  <2> QED  BY <1>1, <2>1, <2>2, <2>3, OutcomesDiffer DEF AnswersWait
<1> QED  BY <1>7, <1>8, <1>9, <1>10, <1>11, <1>12

\* Reading one event: it resolves the call only if it is its answer, and an
\* answer further back in the queue is still there.
LEMMA StepPollEvent ==
    ASSUME IInv, NEW c \in Call, PollEvent(c)
    PROVE  IInv'
<1> USE DEF IInv
<1>1. /\ inbox[c] \in Seq(Event) /\ inbox[c] # <<>> /\ pc[c] = "poll"
      /\ UNCHANGED <<left, lagged, requests, wire, closed, reached, overrun>>
      /\ \A d \in Call \ {c} :
             inbox'[d] = inbox[d] /\ outcome'[d] = outcome[d] /\ pc'[d] = pc[d]
      /\ inbox'[c] = Tail(inbox[c])
    BY DEF TypeOK, PollEvent, End, Goto, world, history
<1>2. PICK e : e = Head(inbox[c])
    OBVIOUS
<1>3. 1 \in DOMAIN inbox[c] /\ e = inbox[c][1] /\ e \in Event
    BY <1>1, <1>2
<1>4. e \in wire \cup Foreign
    BY <1>3 DEF InboxReal
<1>5. /\ Accepts(c, e) => pc'[c] = "done" /\ outcome'[c] = Answered(e.body)
      /\ ~ Accepts(c, e) => pc'[c] = "check" /\ outcome'[c] = outcome[c]
    BY <1>2 DEF TypeOK, PollEvent, End, Goto
<1>6. TypeOK'
  <2>1. pc' \in [Call -> {"idle", "sending", "check", "poll", "done"}]
    BY DEF TypeOK, PollEvent, End, Goto
  <2>2. inbox' \in [Call -> Seq(Event)]
    <3>1. Tail(inbox[c]) \in Seq(Event)
      BY <1>1
    <3>2. inbox' = [inbox EXCEPT ![c] = Tail(inbox[c])]
      BY DEF PollEvent
    <3> QED  BY <3>1, <3>2 DEF TypeOK
  <2>3. outcome' = outcome \/ outcome' = [outcome EXCEPT ![c] = Answered(e.body)]
    BY <1>2 DEF PollEvent, End
  <2>4. Answered(e.body) \in {Answered(b) : b \in ResponseBody}
    BY <1>3, EventFields, Zenon
  <2>5. outcome' \in [Call -> {Pending, SendError, TimeoutError}
                              \cup {Answered(b) : b \in ResponseBody}]
    BY <2>3, <2>4, Zenon DEF TypeOK
  <2> QED  BY <2>1, <2>2, <2>5, <1>1 DEF TypeOK
<1>7. WireEchoes'
    BY <1>1 DEF WireEchoes
<1>8. \A i \in DOMAIN inbox'[c] :
          i + 1 \in DOMAIN inbox[c] /\ inbox'[c][i] = inbox[c][i + 1]
    BY <1>1
<1>9. InboxReal'
    BY <1>1, <1>8, ZenonT(40) DEF InboxReal
<1>10. PhaseAgrees'
  <2>1. outcome[c] = Pending /\ c \in requests
    BY <1>1 DEF PhaseAgrees
  <2>2. /\ pc'[c] = "idle" <=> c \notin requests'
        /\ pc'[c] # "done" <=> outcome'[c] = Pending
    BY <2>1, <1>1, <1>3, <1>5, EventFields, OutcomesDiffer
  <2> QED  BY <2>2, <1>1 DEF PhaseAgrees
<1>11. \A d \in Call : Given(d)' = Given(d)
    BY <1>1 DEF Given
<1>12. AnswerIsMine'
  <2>1. ASSUME Accepts(c, e)
        PROVE  outcome'[c].answer \in Given(c) \ {"garbage", "other_variant"}
    BY <2>1, <1>3, <1>4, <1>5, AcceptedIsMine, EventFields, OutcomesDiffer
  <2> QED  BY <2>1, <1>1, <1>5, <1>11 DEF AnswerIsMine
<1>13. AnswersWait'
  <2>1. \A d \in Call \ {c} : Waits(d)' = Waits(d)
    BY <1>1 DEF Waits
  <2>2. ASSUME Waits(c), ~ Accepts(c, e)
        PROVE  Waits(c)'
    <3>1. PICK i \in DOMAIN inbox[c] :
              inbox[c][i].re = c /\ inbox[c][i].body \in {"success", "failure"}
      BY <2>2 DEF Waits
    <3>2. i # 1
      BY <1>3, <1>4, <2>2, <3>1, MineIsAccepted
    <3>3. i - 1 \in DOMAIN Tail(inbox[c]) /\ Tail(inbox[c])[i - 1] = inbox[c][i]
      BY <1>1, <3>2
    <3> QED  BY <1>1, <3>1, <3>3 DEF Waits
  <2>3. ASSUME NEW d \in reached \ overrun
        PROVE  d \in requests /\ (outcome'[d] \in {Pending, TimeoutError} => Waits(d)')
    <3>1. d \in Call /\ d \in requests
      BY DEF TypeOK, AnswersWait
    <3>2. CASE d # c
      BY <3>1, <3>2, <1>1, <2>1 DEF AnswersWait
    <3>3. CASE d = c
      BY <3>1, <3>3, <1>3, <1>5, <2>2, EventFields, OutcomesDiffer DEF AnswersWait
    <3> QED  BY <3>2, <3>3
  <2> QED  BY <2>3, <1>1 DEF AnswersWait
<1> QED  BY <1>6, <1>7, <1>9, <1>10, <1>12, <1>13


\* The peer answers: the wire grows by a response to c.
LEMMA StepRespond ==
    ASSUME IInv, NEW c \in Call, Respond(c)
    PROVE  IInv'
<1> USE DEF IInv
<1>1. PICK body \in ResponseBody :
          wire' = wire \cup {[topic |-> "chunk", source |-> TargetOf[c],
                              id |-> IdOf[c], body |-> body, re |-> c]}
    BY DEF Respond
<1>2. /\ UNCHANGED <<pc, left, inbox, lagged, outcome, requests, closed,
                     reached, overrun>>
      /\ c \in requests
    BY DEF Respond, code, history
<1>3. [topic |-> "chunk", source |-> TargetOf[c],
       id |-> IdOf[c], body |-> body, re |-> c] \in Event
    BY CallAssumption DEF Event
<1>4. TypeOK'
    BY <1>1, <1>2, <1>3 DEF TypeOK
<1>5. WireEchoes'
    BY <1>1, <1>2 DEF WireEchoes
<1>6. InboxReal'
    BY <1>1, <1>2 DEF InboxReal
<1>7. \A d \in Call : Given(d) \subseteq Given(d)'
    BY <1>1 DEF Given
<1>8. AnswerIsMine'
    BY <1>2, <1>7 DEF AnswerIsMine
<1>9. PhaseAgrees' /\ AnswersWait'
    BY <1>2 DEF PhaseAgrees, AnswersWait, Waits
<1> QED  BY <1>4, <1>5, <1>6, <1>8, <1>9

\* An event reaches every subscriber.  It is appended; what was queued is
\* kept, but for the oldest of a full queue.
LEMMA StepDeliver ==
    ASSUME IInv, NEW e \in wire \cup Foreign, Deliver(e)
    PROVE  IInv'
<1> USE DEF IInv
<1>1. UNCHANGED <<pc, left, outcome, requests, wire, closed>>
    BY DEF Deliver, world
<1>2. e \in Event
    BY ForeignAssumption DEF TypeOK
<1>3. \A d \in Call : inbox[d] \in Seq(Event)
    BY DEF TypeOK
<1>4. \A d \in Call :
          inbox'[d] = IF ~ Subscribed(d) THEN inbox[d]
                      ELSE IF Full(d) THEN Append(Tail(inbox[d]), e)
                      ELSE Append(inbox[d], e)
    BY DEF Deliver
<1>5. \A d \in Call : Full(d) => inbox[d] # <<>>
    BY <1>3, CapacityAssumption DEF Full
<1>6. \A d \in Call : inbox'[d] \in Seq(Event)
  <2> SUFFICES ASSUME NEW d \in Call
               PROVE  inbox'[d] \in Seq(Event)
      OBVIOUS
  <2>1. inbox[d] \in Seq(Event) /\ Append(inbox[d], e) \in Seq(Event)
    BY <1>2, <1>3
  <2>2. ASSUME Full(d)
        PROVE  Append(Tail(inbox[d]), e) \in Seq(Event)
    <3>1. Tail(inbox[d]) \in Seq(Event)
      BY <2>1, <2>2, <1>5
    <3> QED  BY <3>1, <1>2
  <2> QED  BY <2>1, <2>2, <1>4
<1>7. TypeOK'
  <2>1. inbox' \in [Call -> Seq(Event)]
    <3>1. DOMAIN inbox' = Call /\ inbox' = [d \in Call |-> inbox'[d]]
      BY DEF Deliver
    <3> QED  BY <1>6, <3>1, Zenon
  <2>2. lagged' \in [Call -> BOOLEAN]
    BY DEF Deliver, TypeOK
  <2>3. reached' \subseteq Call /\ overrun' \subseteq Call
    BY DEF Deliver, TypeOK
  <2> QED  BY <1>1, <2>1, <2>2, <2>3 DEF TypeOK
<1>8. WireEchoes' /\ PhaseAgrees'
    BY <1>1 DEF WireEchoes, PhaseAgrees
<1>9. \A d \in Call : \A i \in DOMAIN inbox'[d] :
          inbox'[d][i] = e \/ \E j \in DOMAIN inbox[d] : inbox'[d][i] = inbox[d][j]
  <2> SUFFICES ASSUME NEW d \in Call, NEW i \in DOMAIN inbox'[d], inbox'[d][i] # e
               PROVE  \E j \in DOMAIN inbox[d] : inbox'[d][i] = inbox[d][j]
      OBVIOUS
  <2>1. CASE ~ Subscribed(d)
    BY <2>1, <1>4
  <2>2. CASE Subscribed(d) /\ ~ Full(d)
    <3>1. inbox'[d] = Append(inbox[d], e)
      BY <2>2, <1>4
    <3> QED  BY <3>1, <1>3, <1>2
  <2>3. CASE Subscribed(d) /\ Full(d)
    <3>1. inbox'[d] = Append(Tail(inbox[d]), e) /\ inbox[d] # <<>>
      BY <2>3, <1>4, <1>5
    <3>2. i \in DOMAIN Tail(inbox[d]) /\ inbox'[d][i] = Tail(inbox[d])[i]
      BY <3>1, <1>3, <1>2
    <3>3. i + 1 \in DOMAIN inbox[d] /\ Tail(inbox[d])[i] = inbox[d][i + 1]
      BY <3>1, <3>2, <1>3
    <3> QED  BY <3>2, <3>3
  <2> QED  BY <2>1, <2>2, <2>3
<1>10. InboxReal'
    BY <1>1, <1>9 DEF InboxReal
<1>11. AnswerIsMine'
  <2>1. \A d \in Call : Given(d)' = Given(d)
    BY <1>1 DEF Given
  <2> QED  BY <1>1, <2>1 DEF AnswerIsMine
<1>12. AnswersWait'
  <2> SUFFICES ASSUME NEW d \in reached' \ overrun'
               PROVE  d \in requests' /\
                      (outcome'[d] \in {Pending, TimeoutError} => Waits(d)')
      BY Zenon DEF AnswersWait
  <2>1. d \in Call /\ d \notin overrun /\ ~ (Subscribed(d) /\ Full(d))
    BY DEF Deliver, TypeOK
  <2>2. CASE d \in reached
    <3>1. \A i \in DOMAIN inbox[d] :
              i \in DOMAIN inbox'[d] /\ inbox'[d][i] = inbox[d][i]
      <4>1. inbox'[d] = inbox[d] \/ inbox'[d] = Append(inbox[d], e)
        BY <2>1, <1>4
      <4>2. \A i \in DOMAIN inbox[d] :
                /\ i \in DOMAIN Append(inbox[d], e)
                /\ Append(inbox[d], e)[i] = inbox[d][i]
        BY <2>1, <1>2, <1>3
      <4> QED  BY <4>1, <4>2
    <3>2. d \in requests /\ (outcome[d] \in {Pending, TimeoutError} => Waits(d))
      BY <2>1, <2>2 DEF AnswersWait
    <3>3. Waits(d) => Waits(d)'
      BY <3>1 DEF Waits
    <3> QED  BY <1>1, <3>2, <3>3
  <2>3. CASE d \notin reached
    <3>1. e.re = d /\ pc[d] # "done" /\ e.body \in {"success", "failure"}
      BY <2>1, <2>3 DEF Deliver
    <3>2. e \in wire /\ d \in requests
      BY <2>1, <3>1, ForeignAssumption, AbsentAssumption DEF WireEchoes
    <3>3. pc[d] # "idle" /\ pc[d] \in {"idle", "sending", "check", "poll", "done"}
      BY <2>1, <3>2 DEF PhaseAgrees, TypeOK
    <3>4. inbox'[d] = Append(inbox[d], e)
      BY <2>1, <3>1, <3>3, <1>4 DEF Subscribed
    <3>5. PICK n \in Nat : n = Len(inbox[d])
      BY <2>1, <1>3
    <3>6. n + 1 \in DOMAIN inbox'[d] /\ inbox'[d][n + 1] = e
      BY <2>1, <3>4, <3>5, <1>2, <1>3
    <3> QED  BY <3>1, <3>2, <3>6, <1>1 DEF Waits
  <2> QED  BY <2>2, <2>3
<1> QED  BY <1>7, <1>8, <1>10, <1>11, <1>12

LEMMA StepTick ==
    ASSUME IInv, Tick
    PROVE  IInv'
<1> USE DEF IInv
<1>1. UNCHANGED <<pc, inbox, lagged, outcome, requests, wire, closed, reached, overrun>>
    BY DEF Tick, world, history
<1>2. left' \in [Call -> Nat]
    BY DEF Tick, TypeOK
<1> QED
    BY <1>1, <1>2 DEF TypeOK, WireEchoes, InboxReal, PhaseAgrees, AnswerIsMine,
       Given, AnswersWait, Waits

LEMMA StepClose ==
    ASSUME IInv, Close
    PROVE  IInv'
BY DEF IInv, Close, code, history, TypeOK, WireEchoes, InboxReal, PhaseAgrees,
   AnswerIsMine, Given, AnswersWait, Waits

LEMMA StepIInv == IInv /\ [Next]_vars => IInv'
<1> SUFFICES ASSUME IInv, [Next]_vars
             PROVE  IInv'
    OBVIOUS
<1>1. ASSUME NEW c \in Call, Begin(c) \/ Run(c) \/ Respond(c)
      PROVE  IInv'
    BY <1>1, StepInPlace, StepPollEvent, StepRespond DEF Run
<1>2. ASSUME NEW e \in wire \cup Foreign, Deliver(e)
      PROVE  IInv'
    BY <1>2, StepDeliver
<1>3. CASE UNCHANGED vars
    BY <1>3 DEF vars, IInv, TypeOK, WireEchoes, InboxReal, PhaseAgrees,
       AnswerIsMine, Given, AnswersWait, Waits
<1> QED  BY <1>1, <1>2, <1>3, StepTick, StepClose DEF Next

-----------------------------------------------------------------------------
(* Theorems *)

\* The strengthened invariant holds in every reachable state.
THEOREM Invariance == Spec => []IInv
<1>1. Init => IInv
    BY InitIInv
<1>2. IInv /\ [Next]_vars => IInv'
    BY StepIInv
<1> QED  BY <1>1, <1>2, PTL DEF Spec

\* Every variable keeps its type.
THEOREM TypeCorrect == Spec => []TypeOK
<1>1. IInv => TypeOK
    BY DEF IInv
<1> QED  BY <1>1, Invariance, PTL

\* For any number of calls, peers and foreign events, and any queue capacity,
\* a call resolves only with what its peer answered to it.
THEOREM Matching == Spec => []AnswerIsMine
<1>1. IInv => AnswerIsMine
    BY DEF IInv
<1> QED  BY <1>1, Invariance, PTL

\* A call that times out has not dropped an answer that reached the node while
\* it ran, unless its receiver overran.
THEOREM Attention == Spec => []NoAnswerDropped
<1>1. IInv => NoAnswerDropped
    BY DEF IInv, AnswersWait, Waits, NoAnswerDropped
<1> QED  BY <1>1, Invariance, PTL

\* send_and_await_chunk_response implements the contract of its callers: it
\* ends at most once, with an answer its peer gave to that very call or with
\* an error of its own.
THEOREM Refinement == Spec => KeepsContract
<1>1. Init => Contract!Init
    BY DEF Init, Contract!Init, Given, Pending, Contract!Pending
<1>2. IInv /\ IInv' /\ [Next]_vars => [Contract!Next]_(Contract!vars)
  <2> SUFFICES ASSUME IInv, IInv', [Next]_vars
               PROVE  [Contract!Next]_(Contract!vars)
      OBVIOUS
  <2> DEFINE given == [c \in Call |-> Given(c)]
  <2>1. wire' = wire => given' = given
    BY DEF Given
  <2>2. ASSUME requests' = requests, wire' = wire, outcome' = outcome
        PROVE  UNCHANGED Contract!vars
    BY <2>1, <2>2 DEF Contract!vars
  <2>3. ASSUME NEW c \in Call, Begin(c)
        PROVE  Contract!Next
    <3>1. c \notin requests
      BY <2>3 DEF Begin, IInv, PhaseAgrees
    <3>2. Contract!Ask(c)
      BY <2>1, <2>3, <3>1 DEF Begin, Contract!Ask
    <3> QED  BY <3>2 DEF Contract!Next
  <2>4. ASSUME NEW c \in Call, Run(c)
        PROVE  [Contract!Next]_(Contract!vars)
    <3>1. requests' = requests /\ wire' = wire
      BY <2>4 DEF Run, SendFails, SendReturns, CheckDeadline, PollLagged,
         PollEvent, PollEnds, world
    <3>2. pc[c] \notin {"idle", "done"}
      BY <2>4 DEF Run, SendFails, SendReturns, CheckDeadline, PollLagged,
         PollEvent, PollEnds
    <3>3. c \in requests /\ outcome[c] = Contract!Pending
      BY <3>2 DEF IInv, PhaseAgrees, Pending, Contract!Pending
    <3>4. \/ outcome' = outcome
          \/ outcome' = [outcome EXCEPT ![c] = SendError]
          \/ outcome' = [outcome EXCEPT ![c] = TimeoutError]
          \/ \E b \in ResponseBody : outcome' = [outcome EXCEPT ![c] = Answered(b)]
                                     /\ b \in Given(c)
      <4>1. ASSUME PollEvent(c), outcome' # outcome
            PROVE  \E b \in ResponseBody : outcome' = [outcome EXCEPT ![c] = Answered(b)]
                                           /\ b \in Given(c)
        <5>1. PICK e : e = Head(inbox[c])
          OBVIOUS
        <5>2. Accepts(c, e) /\ outcome' = [outcome EXCEPT ![c] = Answered(e.body)]
          BY <4>1, <5>1 DEF PollEvent, End
        <5>3. e \in wire \cup Foreign /\ e \in Event
          <6>1. inbox[c] \in Seq(Event) /\ inbox[c] # <<>>
            BY <4>1 DEF PollEvent, IInv, TypeOK
          <6>2. 1 \in DOMAIN inbox[c] /\ e = inbox[c][1] /\ e \in Event
            BY <5>1, <6>1
          <6> QED  BY <6>2 DEF IInv, InboxReal
        <5> QED  BY <5>2, <5>3, AcceptedIsMine, EventFields
      <4> QED
          BY <2>4, <4>1 DEF Run, SendFails, SendReturns, CheckDeadline,
             PollLagged, PollEnds, End
    <3>5. CASE outcome' = outcome
      BY <2>2, <3>1, <3>5
    <3>6. ASSUME NEW o \in Contract!Errors \cup {Contract!Answered(a) : a \in Given(c)},
                 outcome' = [outcome EXCEPT ![c] = o]
          PROVE  Contract!Next
      <4>1. given[c] = Given(c)
        OBVIOUS
      <4>2. Contract!Finish(c)
        BY <2>1, <3>1, <3>3, <3>6, <4>1 DEF Contract!Finish
      <4> QED  BY <4>2 DEF Contract!Next
    <3>7. SendError \in Contract!Errors /\ TimeoutError \in Contract!Errors
      BY DEF SendError, TimeoutError, Contract!Errors
    <3>8. \A b \in Given(c) :
              Answered(b) \in {Contract!Answered(a) : a \in Given(c)}
      BY DEF Answered, Contract!Answered
    <3> QED  BY <3>4, <3>5, <3>6, <3>7, <3>8
  <2>5. ASSUME NEW c \in Call, Respond(c)
        PROVE  Contract!Next
    <3>1. PICK body \in ResponseBody :
              wire' = wire \cup {[topic |-> "chunk", source |-> TargetOf[c],
                                  id |-> IdOf[c], body |-> body, re |-> c]}
      BY <2>5 DEF Respond
    <3>2. Given(c)' = Given(c) \cup {body}
      <4>1. PICK r : r = [topic |-> "chunk", source |-> TargetOf[c],
                          id |-> IdOf[c], body |-> body, re |-> c]
        OBVIOUS
      <4>2. r.re = c /\ r.body = body /\ wire' = wire \cup {r}
        BY <3>1, <4>1
      <4>3. {w \in wire' : w.re = c} = {w \in wire : w.re = c} \cup {r}
        BY <4>2
      <4> QED  BY <4>2, <4>3 DEF Given
    <3>3. \A d \in Call \ {c} : Given(d)' = Given(d)
      BY <3>1 DEF Given
    <3>4. given' = [given EXCEPT ![c] = given[c] \cup {body}]
      BY <3>2, <3>3
    <3>5. Contract!Give(c, body)
      BY <2>5, <3>4 DEF Respond, code, Contract!Give
    <3> QED  BY <3>5 DEF Contract!Next
  <2>6. ASSUME NEW e \in wire \cup Foreign, Deliver(e)
        PROVE  UNCHANGED Contract!vars
    BY <2>2, <2>6 DEF Deliver, world
  <2>7. CASE Close \/ Tick
    BY <2>2, <2>7 DEF Close, Tick, code, world
  <2>8. CASE UNCHANGED vars
    BY <2>2, <2>8 DEF vars
  <2> QED  BY <2>3, <2>4, <2>5, <2>6, <2>7, <2>8 DEF Next
<1> QED  BY <1>1, <1>2, Invariance, PTL DEF Spec, KeepsContract, Contract!Spec

-----------------------------------------------------------------------------
(* The deadline *)

\* timeout_error has two causes in the code and no third: the deadline passed,
\* or the event channel was closed (which its documentation leaves out).
TimeoutsAreExplained ==
    \A c \in Call : outcome[c] = TimeoutError => left[c] = 0 \/ closed

\* Where a step may take a call: it begins, it sends, it alternates between
\* looking at the clock and polling, and it ends.
LEMMA Moves ==
    ASSUME IInv, [Next]_vars, NEW c \in Call
    PROVE  \/ pc'[c] = pc[c] /\ (left'[c] = left[c] \/ Tick) /\ outcome'[c] = outcome[c]
           \/ pc[c] \in {"idle", "sending"} /\ outcome'[c] # TimeoutError
           \/ /\ pc[c] = "check" /\ left' = left
              /\ \/ pc'[c] = "poll" /\ left[c] > 0 /\ outcome'[c] = outcome[c]
                 \/ pc'[c] = "done" /\ left[c] = 0
           \/ /\ pc[c] = "poll" /\ left' = left /\ pc'[c] \in {"check", "done"}
              /\ outcome'[c] = TimeoutError => closed \/ left[c] = 0
<1>1. /\ pc \in [Call -> {"idle", "sending", "check", "poll", "done"}]
      /\ left[c] \in Nat
      /\ outcome \in [Call -> {Pending, SendError, TimeoutError}
                              \cup {Answered(b) : b \in ResponseBody}]
    BY DEF IInv, TypeOK
<1>2. pc[c] # "done" => outcome[c] = Pending
    BY DEF IInv, PhaseAgrees
<1>3. ASSUME NEW d \in Call, Begin(d) \/ Respond(d)
      PROVE  \/ pc'[c] = pc[c] /\ left'[c] = left[c] /\ outcome'[c] = outcome[c]
             \/ pc[c] = "idle" /\ outcome'[c] # TimeoutError
    BY <1>1, <1>2, <1>3, OutcomesDiffer DEF Begin, Respond, code, Goto
<1>4. ASSUME NEW d \in Call, d # c, Run(d)
      PROVE  pc'[c] = pc[c] /\ left'[c] = left[c] /\ outcome'[c] = outcome[c]
    BY <1>1, <1>4 DEF Run, SendFails, SendReturns, CheckDeadline, PollLagged,
       PollEvent, PollEnds, End, Goto, IInv, TypeOK
<1>5. CASE SendFails(c) \/ SendReturns(c)
    BY <1>1, <1>2, <1>5, OutcomesDiffer DEF SendFails, SendReturns, End, Goto
<1>6. CASE CheckDeadline(c)
    BY <1>1, <1>6 DEF CheckDeadline, End, Goto
<1>7. CASE PollLagged(c)
    BY <1>1, <1>2, <1>7, OutcomesDiffer DEF PollLagged, Goto
<1>8. CASE PollEnds(c)
    BY <1>1, <1>8 DEF PollEnds, End, Goto
<1>9. CASE PollEvent(c)
    <2>1. pc[c] = "poll" /\ left' = left /\ pc'[c] \in {"check", "done"}
        BY <1>1, <1>9 DEF PollEvent, End, Goto
    <2>2. Head(inbox[c]) \in Event
        BY <1>9 DEF PollEvent, IInv, TypeOK
    <2>3. outcome'[c] # TimeoutError
        BY <1>1, <1>2, <1>9, <2>2, EventFields, OutcomesDiffer DEF PollEvent, End
    <2> QED  BY <2>1, <2>3
<1>10. ASSUME NEW e \in wire \cup Foreign, Deliver(e)
       PROVE  UNCHANGED <<pc, left, outcome>>
    BY <1>10 DEF Deliver
<1>11. CASE Close \/ Tick \/ UNCHANGED vars
    BY <1>11 DEF Close, Tick, vars, code
<1> QED  BY <1>3, <1>4, <1>5, <1>6, <1>7, <1>8, <1>9, <1>10, <1>11 DEF Next, Run

\* No call ever reports a timeout for another reason, whatever it reads.
THEOREM TimeoutCauses == Spec => []TimeoutsAreExplained
<1>1. Init => TimeoutsAreExplained
    BY OutcomesDiffer DEF Init, TimeoutsAreExplained
<1>2. IInv /\ TimeoutsAreExplained /\ [Next]_vars => TimeoutsAreExplained'
    <2> SUFFICES ASSUME IInv, TimeoutsAreExplained, [Next]_vars, NEW c \in Call,
                        outcome'[c] = TimeoutError
                 PROVE  left'[c] = 0 \/ closed'
        BY DEF TimeoutsAreExplained
    <2>1. closed => closed'
        BY DEF Next, Begin, Run, Respond, Deliver, Close, Tick, vars, world,
           SendFails, SendReturns, CheckDeadline, PollLagged, PollEvent, PollEnds
    <2>2. left[c] = 0 /\ Tick => left'[c] = 0
        BY DEF Tick
    <2>3. outcome[c] = TimeoutError => left[c] = 0 \/ closed
        BY DEF TimeoutsAreExplained
    <2>4. pc[c] # "done" => outcome[c] # TimeoutError
        BY OutcomesDiffer DEF IInv, PhaseAgrees
    <2> QED  BY <2>1, <2>2, <2>3, <2>4, Moves
<1> QED  BY <1>1, <1>2, Invariance, PTL DEF Spec

\* One deadline for the whole call: nothing a waiting call reads sets it back,
\* and a call that has passed it polls at most once more.
DeadlineStands ==
    [][\A c \in Call : Waiting(c) =>
           /\ left'[c] <= left[c]
           /\ left[c] = 0 /\ pc'[c] # pc[c] =>
                  <<pc[c], pc'[c]>> \in {<<"poll", "check">>, <<"poll", "done">>,
                                         <<"check", "done">>}]_vars

\* Events that are not the call's, however many, do not postpone its end
\* (send_and_await_chunk_response computes the deadline once).
THEOREM DeadlineIsFirm == Spec => DeadlineStands
<1>1. IInv /\ [Next]_vars =>
          [\A c \in Call : Waiting(c) =>
              /\ left'[c] <= left[c]
              /\ left[c] = 0 /\ pc'[c] # pc[c] =>
                     <<pc[c], pc'[c]>> \in {<<"poll", "check">>, <<"poll", "done">>,
                                            <<"check", "done">>}]_vars
    <2> SUFFICES ASSUME IInv, [Next]_vars, NEW c \in Call, Waiting(c)
                 PROVE  /\ left'[c] <= left[c]
                        /\ left[c] = 0 /\ pc'[c] # pc[c] =>
                               <<pc[c], pc'[c]>> \in {<<"poll", "check">>,
                                   <<"poll", "done">>, <<"check", "done">>}
        OBVIOUS
    <2>1. left[c] \in Nat /\ pc[c] \in {"check", "poll"}
        BY DEF IInv, TypeOK, Waiting
    <2>2. Tick => left'[c] <= left[c]
        BY <2>1 DEF Tick
    <2> QED  BY <2>1, <2>2, Moves
<1> QED  BY <1>1, Invariance, PTL DEF Spec, DeadlineStands

\* The scheduling of a call's task, with the guards of Run written out: unless
\* it has nothing to do again and again, it steps again and again.
CanRun(c) ==
    \/ pc[c] \in {"sending", "check"}
    \/ pc[c] = "poll" /\ (lagged[c] \/ inbox[c] # <<>> \/ closed \/ left[c] = 0)

Scheduled(c) == []<>(~ CanRun(c)) \/ []<><<Run(c)>>_vars

\* A call whose deadline has passed returns, whatever keeps arriving for it:
\* the last part of CallsEnd, for any timeout and any traffic.
THEOREM LateCallsEnd ==
    ASSUME NEW c \in Call
    PROVE  Spec /\ Scheduled(c) => ((Waiting(c) /\ left[c] = 0) ~> pc[c] = "done")
<1> DEFINE P == pc[c] = "poll" /\ left[c] = 0
           Q == pc[c] = "check" /\ left[c] = 0
           R == pc[c] = "done"
<1>0. left[c] = 0 /\ Tick => left'[c] = 0
    BY DEF Tick
<1>1. IInv /\ P /\ [Next]_vars => P' \/ Q' \/ R'
    BY <1>0, Moves
<1>2. IInv /\ P /\ [Next]_vars /\ <<Run(c)>>_vars => Q' \/ R'
    BY Moves DEF Run, SendFails, SendReturns, CheckDeadline, PollLagged,
       PollEvent, PollEnds, End, Goto, IInv, TypeOK
<1>3. IInv /\ Q /\ [Next]_vars => Q' \/ R'
    BY <1>0, Moves
<1>4. IInv /\ Q /\ [Next]_vars /\ <<Run(c)>>_vars => R'
    BY Moves DEF Run, SendFails, SendReturns, CheckDeadline, PollLagged,
       PollEvent, PollEnds, End, Goto, IInv, TypeOK
<1>5. P \/ Q => CanRun(c)
    BY DEF CanRun
<1>6. Waiting(c) /\ left[c] = 0 => P \/ Q
    BY DEF Waiting
<1> HIDE DEF P, Q, R
<1> QED  BY <1>1, <1>2, <1>3, <1>4, <1>5, <1>6, Invariance, PTL
         DEF Spec, Scheduled, R

=============================================================================
