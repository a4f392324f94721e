----------------------------- MODULE ChunkCall -----------------------------
(***************************************************************************)
(* send_and_await_chunk_response_with_metadata (src/src/chunk_protocol.rs): *)
(* subscribe, send, then poll events until one is the answer or the         *)
(* deadline passes.  Several calls run at once on one P2PNode and every     *)
(* event goes to every subscriber, so each call sees the answers to all the *)
(* others, late answers to calls that ended, and events of other protocols. *)
(*                                                                         *)
(* A subscription is a tokio broadcast receiver: bounded, and one that      *)
(* falls behind loses its oldest events and is told so once (Lagged).  Time *)
(* is a countdown per call, because the code only ever looks at how much is *)
(* left.  The peer, the transport and the channel are other crates'; they   *)
(* are modelled by what the code relies on.                                 *)
(***************************************************************************)
EXTENDS Naturals, Sequences

CONSTANTS
    Call,             \* the calls made
    Peer,
    RequestId,
    TargetOf,         \* target_peer of each call
    IdOf,             \* request_id of each call
    Timeout,          \* timeout of each call
    LongestTimeout,   \* beyond it Instant::now() + timeout overflows
    Foreign,          \* events that answer no call
    NoCall, NoPeer,
    Capacity          \* of the broadcast channel

\* "The sender picks a unique request_id": two calls to one peer never share
\* one.  Calls to different peers may.
ASSUME CallAssumption ==
    /\ TargetOf \in [Call -> Peer]
    /\ IdOf \in [Call -> RequestId]
    /\ Timeout \in [Call -> Nat]
    /\ \A c, d \in Call :
           TargetOf[c] = TargetOf[d] /\ IdOf[c] = IdOf[d] => c = d
ASSUME AbsentAssumption == NoCall \notin Call /\ NoPeer \notin Peer
ASSUME CapacityAssumption == Capacity \in Nat \ {0} /\ LongestTimeout \in Nat

\* What a response body is to the handler of the call it answers; "garbage"
\* does not decode, and "other_variant" is what the handler answers None to.
ResponseBody == {"success", "failure", "other_variant", "garbage"}

\* An event of the node.  re is the call it answers, which no code sees.
Event == [topic : {"chunk", "other"}, source : Peer \cup {NoPeer},
          id : RequestId, body : ResponseBody, re : Call \cup {NoCall}]

ASSUME ForeignAssumption ==
    /\ Foreign \subseteq Event
    /\ \A e \in Foreign : e.re = NoCall

\* Foreign events do not pass for an answer: another protocol, an
\* unauthenticated source, or an id not in use with that peer.
ASSUME ForeignIdAssumption ==
    \A e \in Foreign, c \in Call :
        \/ e.topic # "chunk"
        \/ e.source # TargetOf[c]
        \/ e.id # IdOf[c]

VARIABLES
    pc,               \* call -> where it is
    left,             \* call -> time left to its deadline
    inbox,            \* call -> events received and not yet polled
    lagged,           \* call -> the receiver has lost events, not yet told
    outcome,          \* call -> its result
    requests,         \* requests that may have reached their peer
    wire,             \* responses sent by peers
    closed,           \* the event channel is closed
    reached,          \* calls whose answer reached this node while they ran
    overrun           \* calls whose receiver ever lost an event

code == <<pc, left, inbox, lagged, outcome>>
world == <<requests, wire, closed>>
history == <<reached, overrun>>
vars == <<pc, left, inbox, lagged, outcome, requests, wire, closed,
          reached, overrun>>

Pending == [kind |-> "pending"]
SendError == [kind |-> "send_error"]
TimeoutError == [kind |-> "timeout_error"]
Answered(body) == [kind |-> "answered", answer |-> body]

Init ==
    /\ pc = [c \in Call |-> "idle"]
    /\ left = [c \in Call |-> 0]
    /\ inbox = [c \in Call |-> <<>>]
    /\ lagged = [c \in Call |-> FALSE]
    /\ outcome = [c \in Call |-> Pending]
    /\ requests = {} /\ wire = {} /\ closed = FALSE
    /\ reached = {} /\ overrun = {}

-----------------------------------------------------------------------------
(* The call *)

Goto(c, there) == pc' = [pc EXCEPT ![c] = there]

End(c, result) ==
    /\ Goto(c, "done")
    /\ outcome' = [outcome EXCEPT ![c] = result]

\* A plausible slip in Subscribed: subscribe_events after send_message.
SubscribedAfterSend(c) == pc[c] \in {"check", "poll"}

\* Subscribed from before the request leaves until the call returns.
Subscribed(c) == pc[c] \in {"sending", "check", "poll"}

\* subscribe_events, and send_message is called.
Begin(c) ==
    /\ pc[c] = "idle"
    /\ Goto(c, "sending")
    /\ requests' = requests \cup {c}
    /\ UNCHANGED <<left, inbox, lagged, outcome, wire, closed, history>>

\* send_message returns Err; the request may have left all the same.
SendFails(c) ==
    /\ pc[c] = "sending"
    /\ End(c, SendError)
    /\ UNCHANGED <<left, inbox, lagged, world, history>>

\* checked_add: a timeout the clock cannot hold is an immediate deadline.
TimeLeft(timeout) == IF timeout > LongestTimeout THEN 0 ELSE timeout

\* send_message returns Ok; only now does the deadline start to run.
SendReturns(c) ==
    /\ pc[c] = "sending"
    /\ Goto(c, "check")
    /\ left' = [left EXCEPT ![c] = TimeLeft(Timeout[c])]
    /\ UNCHANGED <<inbox, lagged, outcome, world, history>>

\* while Instant::now() < deadline
CheckDeadline(c) ==
    /\ pc[c] = "check"
    /\ IF left[c] > 0
       THEN Goto(c, "poll") /\ UNCHANGED outcome
       ELSE End(c, TimeoutError)
    /\ UNCHANGED <<left, inbox, lagged, world, history>>

\* Plausible slips in Accepts: the guard without the source, and a response
\* taken whatever its request_id.
AcceptsAnySource(c, e) ==
    /\ e.topic = "chunk"
    /\ e.body \notin {"garbage", "other_variant"}
    /\ e.id = IdOf[c]

AcceptsAnyId(c, e) ==
    /\ e.topic = "chunk"
    /\ e.source = TargetOf[c]
    /\ e.body \notin {"garbage", "other_variant"}

\* The match arm's guard, decoding, the id and the handler's verdict.
Accepts(c, e) ==
    /\ e.topic = "chunk"
    /\ e.source = TargetOf[c]
    /\ e.body # "garbage"
    /\ e.id = IdOf[c]
    /\ e.body # "other_variant"

PollLagged(c) ==
    /\ pc[c] = "poll" /\ lagged[c]
    /\ lagged' = [lagged EXCEPT ![c] = FALSE]
    /\ Goto(c, "check")
    /\ UNCHANGED <<left, inbox, outcome, world, history>>

\* A plausible slip in PollEvent: each event gets the whole timeout anew.
PollEventRearming(c) ==
    /\ pc[c] = "poll" /\ ~ lagged[c] /\ inbox[c] # <<>>
    /\ inbox' = [inbox EXCEPT ![c] = Tail(@)]
    /\ left' = [left EXCEPT ![c] = TimeLeft(Timeout[c])]
    /\ IF Accepts(c, Head(inbox[c]))
       THEN End(c, Answered(Head(inbox[c]).body))
       ELSE Goto(c, "check") /\ UNCHANGED outcome
    /\ UNCHANGED <<lagged, world, history>>

PollEvent(c) ==
    /\ pc[c] = "poll" /\ ~ lagged[c] /\ inbox[c] # <<>>
    /\ inbox' = [inbox EXCEPT ![c] = Tail(@)]
    /\ IF Accepts(c, Head(inbox[c]))
       THEN End(c, Answered(Head(inbox[c]).body))
       ELSE Goto(c, "check") /\ UNCHANGED outcome
    /\ UNCHANGED <<left, lagged, world, history>>

\* Nothing to read, and the channel is closed or the timeout elapses.  A
\* timeout polls the receiver first, so an event that is there wins.
PollEnds(c) ==
    /\ pc[c] = "poll" /\ ~ lagged[c] /\ inbox[c] = <<>>
    /\ closed \/ left[c] = 0
    /\ End(c, TimeoutError)
    /\ UNCHANGED <<left, inbox, lagged, world, history>>

Run(c) ==
    \/ SendFails(c) \/ SendReturns(c) \/ CheckDeadline(c)
    \/ PollLagged(c) \/ PollEvent(c) \/ PollEnds(c)

-----------------------------------------------------------------------------
(* The world *)

\* The peer answers a request, echoing its id; it answers each one once.
Respond(c) ==
    /\ c \in requests
    /\ \A e \in wire : e.re # c
    /\ \E body \in ResponseBody :
           wire' = wire \cup {[topic |-> "chunk", source |-> TargetOf[c],
                               id |-> IdOf[c], body |-> body, re |-> c]}
    /\ UNCHANGED <<code, requests, closed, history>>

Full(c) == Len(inbox[c]) = Capacity

\* The transport emits an event: every subscriber gets it, and one whose
\* queue is full loses its oldest.  Responses may be lost, repeated and late.
Deliver(e) ==
    /\ ~ closed
    /\ inbox' = [c \in Call |->
           IF ~ Subscribed(c) THEN inbox[c]
           ELSE IF Full(c) THEN Append(Tail(inbox[c]), e)
           ELSE Append(inbox[c], e)]
    /\ lagged' = [c \in Call |-> lagged[c] \/ (Subscribed(c) /\ Full(c))]
    /\ overrun' = overrun \cup {c \in Call : Subscribed(c) /\ Full(c)}
    /\ reached' = reached \cup {c \in Call :
           e.re = c /\ pc[c] # "done" /\ e.body \in {"success", "failure"}}
    /\ UNCHANGED <<pc, left, outcome, world>>

Close ==
    /\ ~ closed
    /\ closed' = TRUE
    /\ UNCHANGED <<code, requests, wire, history>>

Waiting(c) == pc[c] \in {"check", "poll"}

\* A plausible slip in Tick: a deadline already passed is not saturated.
TickUnsaturated ==
    /\ \E c \in Call : Waiting(c) /\ left[c] > 0
    /\ left' = [c \in Call |-> IF Waiting(c) THEN left[c] - 1 ELSE left[c]]
    /\ UNCHANGED <<pc, inbox, lagged, outcome, world, history>>

\* deadline.saturating_duration_since(Instant::now()), for every call.
Tick ==
    /\ \E c \in Call : Waiting(c) /\ left[c] > 0
    /\ left' = [c \in Call |->
           IF Waiting(c) /\ left[c] > 0 THEN left[c] - 1 ELSE left[c]]
    /\ UNCHANGED <<pc, inbox, lagged, outcome, world, history>>

-----------------------------------------------------------------------------
Next ==
    \/ \E c \in Call : Begin(c) \/ Run(c) \/ Respond(c)
    \/ \E e \in wire \cup Foreign : Deliver(e)
    \/ Close
    \/ Tick

Spec == Init /\ [][Next]_vars

\* The task of a call is scheduled, its send_message returns, and time passes.
FairSpec == Spec /\ WF_vars(Tick) /\ \A c \in Call : WF_vars(Run(c))

-----------------------------------------------------------------------------
(* Properties *)

TypeOK ==
    /\ pc \in [Call -> {"idle", "sending", "check", "poll", "done"}]
    /\ left \in [Call -> Nat]
    /\ inbox \in [Call -> Seq(Event)]
    /\ lagged \in [Call -> BOOLEAN]
    /\ outcome \in [Call -> {Pending, SendError, TimeoutError}
                            \cup {Answered(b) : b \in ResponseBody}]
    /\ requests \subseteq Call /\ wire \subseteq Event /\ closed \in BOOLEAN
    /\ reached \subseteq Call /\ overrun \subseteq Call

\* The answers peers gave to a call.
Given(c) == {e.body : e \in {w \in wire : w.re = c}}

\* A call never resolves with the answer to another call, with an event of
\* another peer or protocol, or with bytes that do not decode (the topic,
\* source, decode and request_id filters together).
AnswerIsMine ==
    \A c \in Call : outcome[c].kind = "answered" =>
        outcome[c].answer \in Given(c) \ {"garbage", "other_variant"}

\* An answer that reaches the node while the call runs is never dropped by it:
\* when the call times out the answer is still unread, because the deadline
\* came first, unless the receiver overran.  In particular an answer that
\* overtakes the return of send_message is not lost.
NoAnswerDropped ==
    \A c \in reached \ overrun :
        outcome[c] = TimeoutError => \E i \in DOMAIN inbox[c] : inbox[c][i].re = c

\* Every call ends, whatever keeps arriving: the deadline is one for the whole
\* call, not for each event.
CallsEnd == \A c \in Call : pc[c] = "sending" ~> pc[c] = "done"

\* What the documentation says of timeout_error: it is for deadline expiry.
TimeoutMeansDeadline ==
    \A c \in Call : outcome[c] = TimeoutError => left[c] = 0

\* Each call keeps the contract of CallContract.
Contract == INSTANCE CallContract WITH
    Answer <- ResponseBody,
    asked <- requests,
    given <- [c \in Call |-> Given(c)]

KeepsContract == Contract!Spec

=============================================================================
