------------------------- MODULE SingleNodePayment -------------------------
(***************************************************************************)
(* SingleNodePayment (src/src/payment/single_node.rs) on both its sides:    *)
(* clients that build a payment and pay it, storers that rebuild it from    *)
(* the quotes of the proof they were sent, and look it up on-chain.         *)
(*                                                                         *)
(* The two sides never share a SingleNodePayment.  A client pays the quote  *)
(* that came out in the middle of its list; a storer sorts its own list,    *)
(* with the quotes in any other order.  pay may fail after its transaction  *)
(* was sent, and be retried with quotes in another order or with other      *)
(* quotes.  A storer reads the chain once for each candidate, and payments  *)
(* land in between.                                                         *)
(*                                                                         *)
(* The wallet, the chain and the payment vault contract are evmlib's; they  *)
(* are modelled by what pay and verify rely on: one amount per quote hash,  *)
(* and no transaction for a zero amount.  A quote may be paid for twice, by *)
(* two calls of pay: the vault shows the same amount, the money is gone     *)
(* twice.  So each transaction carries the call that sent it.               *)
(***************************************************************************)
EXTENDS MedianQuote

CONSTANTS
    Client,
    Storer,
    Offers,           \* the lists of quotes clients collect
    NoPayment,
    AttemptBound      \* how many times clients call pay in all

ASSUME OffersAssumption == Offers \subseteq Seq(Quote)

VARIABLES
    payment,          \* client -> its SingleNodePayment
    list,             \* client -> the quotes that was built from
    paying,           \* client -> its call of pay that has not returned, or 0
    attempts,         \* calls of pay so far, numbered from 1
    transactions,     \* sent and not yet mined
    mined,            \* payments made
    completedPayments,\* the vault: quote -> amount
    receipts,         \* calls of pay that returned Ok, and their quotes
    check             \* storer -> the state of its verify

vars == <<payment, list, paying, attempts, transactions, mined,
          completedPayments, receipts, check>>
client == <<payment, list, paying, attempts>>
chain == <<transactions, mined, completedPayments>>

Payment == [quotes : Group, amount : Amount]
Transaction == [call : Nat, quote : Quote, amount : Amount]

\* A verify: its payment, the tied quotes not yet looked up, how it stands,
\* and whether its quotes had been paid before it began: pay had returned for
\* them, or one of those it looks up had its money.
Check == [payment : Payment, left : SUBSET (1..CLOSE_GROUP_SIZE),
          status : {"running", "accepted", "underpaid", "refused", "failed"},
          paidBefore : BOOLEAN]

Init ==
    /\ payment = [c \in Client |-> NoPayment]
    /\ list = [c \in Client |-> <<>>]
    /\ paying = [c \in Client |-> 0] /\ attempts = 0
    /\ transactions = {} /\ mined = {}
    /\ completedPayments = [q \in Quote |-> 0]
    /\ receipts = {}
    /\ check = [s \in Storer |-> NoPayment]

-----------------------------------------------------------------------------
(* Clients *)

\* Quotes are collected and from_quotes succeeds; also to replace a payment
\* that was not made.
FromQuotes(c) ==
    /\ paying[c] = 0
    /\ \E offer \in Offers : \E p \in from_quotes(offer) :
           /\ payment' = [payment EXCEPT ![c] = p]
           /\ list' = [list EXCEPT ![c] = offer]
    /\ UNCHANGED <<paying, attempts, chain, receipts, check>>

\* What pay_for_quotes sends: no transaction for a zero amount.
Batch(p, call) ==
    {[call |-> call, quote |-> p.quotes[k], amount |-> AmountAt(p, k)] :
        k \in {i \in DOMAIN p.quotes : AmountAt(p, i) > 0}}

Pay(c) ==
    /\ payment[c] # NoPayment /\ paying[c] = 0
    /\ attempts < AttemptBound
    /\ attempts' = attempts + 1
    /\ paying' = [paying EXCEPT ![c] = attempts']
    /\ transactions' = transactions \cup Batch(payment[c], attempts')
    /\ UNCHANGED <<payment, list, mined, completedPayments, receipts, check>>

\* A slip in PayReturns: a missing transaction hash is left out of the result.
PayReturnsRegardless(c) ==
    /\ paying[c] # 0
    /\ paying' = [paying EXCEPT ![c] = 0]
    /\ receipts' = receipts \cup {[call |-> paying[c], quotes |-> list[c]]}
    /\ UNCHANGED <<payment, list, attempts, chain, check>>

\* pay returns the hashes of its non-zero transactions, all of them mined.
PayReturns(c) ==
    /\ paying[c] # 0
    /\ Batch(payment[c], paying[c]) \subseteq mined
    /\ paying' = [paying EXCEPT ![c] = 0]
    /\ receipts' = receipts \cup {[call |-> paying[c], quotes |-> list[c]]}
    /\ UNCHANGED <<payment, list, attempts, chain, check>>

\* pay returns Err, or a hash is missing; its transactions may still be mined.
PayFails(c) ==
    /\ paying[c] # 0
    /\ paying' = [paying EXCEPT ![c] = 0]
    /\ UNCHANGED <<payment, list, attempts, chain, receipts, check>>

-----------------------------------------------------------------------------
(* The chain *)

Mine(t) ==
    /\ transactions' = transactions \ {t}
    /\ mined' = mined \cup {t}
    /\ completedPayments' = [completedPayments EXCEPT ![t.quote] = t.amount]
    /\ UNCHANGED <<client, receipts, check>>

Drop(t) ==
    /\ transactions' = transactions \ {t}
    /\ UNCHANGED <<client, mined, completedPayments, receipts, check>>

-----------------------------------------------------------------------------
(* Storers *)

\* A plausible slip in Refuses: the zero-price guard is dropped.
RefusesNothing(p) == FALSE

\* Free storage: refused before any lookup.
Refuses(p) == p.amount = 0 \/ paid_quote(p).price = 0

Running(s) == check[s] # NoPayment /\ check[s].status = "running"

\* verify is called on what from_quotes makes of the quotes of a proof.  The
\* storer takes no notice of how the client ordered them.
Verify(s, quotes) ==
    /\ ~ Running(s)
    /\ \E p \in from_quotes(quotes) :
           check' = [check EXCEPT ![s] =
               [payment    |-> p,
                left       |-> IF Refuses(p) THEN {} ELSE Tied(p),
                status     |-> IF Refuses(p) THEN "refused" ELSE "running",
                paidBefore |->
                    \/ \E r \in receipts : SameQuotes(r.quotes, quotes)
                    \/ \E k \in Tied(p) :
                           completedPayments[p.quotes[k]] >= p.amount]]
    /\ UNCHANGED <<client, chain, receipts>>

\* One completedPayments lookup, in the order of the sorted list: the payment
\* is accepted, or the next tied quote is tried, or there is none.
Lookup(s) ==
    /\ Running(s)
    /\ \E k \in check[s].left :
           /\ \A i \in check[s].left : k <= i
           /\ LET p    == check[s].payment
                  rest == check[s].left \ {k}
                  paid == completedPayments[p.quotes[k]] >= p.amount
              IN  check' = [check EXCEPT
                      ![s].left   = rest,
                      ![s].status = IF paid THEN "accepted"
                                    ELSE IF rest = {} THEN "underpaid"
                                    ELSE "running"]
    /\ UNCHANGED <<client, chain, receipts>>

\* The lookup fails, and verify with it.
LookupFails(s) ==
    /\ Running(s)
    /\ check' = [check EXCEPT ![s].status = "failed"]
    /\ UNCHANGED <<client, chain, receipts>>

-----------------------------------------------------------------------------
\* Any list may reach a storer, paid for or not.
Next ==
    \/ \E c \in Client : FromQuotes(c) \/ Pay(c) \/ PayReturns(c) \/ PayFails(c)
    \/ \E t \in transactions : Mine(t) \/ Drop(t)
    \/ \E s \in Storer :
           \/ \E quotes \in Offers : Verify(s, quotes)
           \/ Lookup(s)
           \/ LookupFails(s)

Spec == Init /\ [][Next]_vars

-----------------------------------------------------------------------------
(* Properties *)

\* Every variable keeps its type.
TypeOK ==
    /\ payment \in [Client -> Payment \cup {NoPayment}]
    /\ list \in [Client -> Seq(Quote)]
    /\ paying \in [Client -> Nat] /\ attempts \in Nat
    /\ transactions \subseteq Transaction /\ mined \subseteq Transaction
    /\ completedPayments \in [Quote -> Amount]
    /\ receipts \subseteq [call : Nat, quotes : Seq(Quote)]
    /\ check \in [Storer -> Check \cup {NoPayment}]

Status(s) == IF check[s] = NoPayment THEN "none" ELSE check[s].status

\* Once pay has returned Ok for a list of quotes, or the money for one that ties
\* at the median is on-chain, no storer that is then given those quotes, in
\* whatever order, finds them underpaid: its several lookups are as good as one,
\* with retries and transactions that land late or never included.
PaidIsNeverUnderpaid ==
    \A s \in Storer :
        Status(s) = "underpaid" => ~ check[s].paidBefore

\* A storer accepts only what was paid for: some quote at the median price of
\* its list got three times that price on-chain, and that is not zero.
AcceptedWasPaid ==
    \A s \in Storer : Status(s) = "accepted" =>
        \E k \in 1..CLOSE_GROUP_SIZE :
            LET q == check[s].payment.quotes[k]
            IN  /\ q.price = paid_quote(check[s].payment).price
                /\ completedPayments[q] >= 3 * q.price
                /\ q.price > 0

\* A client and a storer with the same quotes ask for the same amount.
SidesAgree ==
    \A s \in Storer, c \in Client :
        /\ check[s] # NoPayment /\ payment[c] # NoPayment
        /\ SameQuotes(payment[c].quotes, check[s].payment.quotes)
        => payment[c].amount = check[s].payment.amount

\* Payments made, and those that may still be.
Sent == mined \cup transactions

\* No call of pay ever costs more than one payment, failed calls and transactions
\* that land late included: what is paid twice, a second time for one quote too,
\* was paid by two calls ("Pays 3x to the median quote and 0 to the others").
OnePaymentPerCall ==
    /\ \A t \in Sent : t.call \in 1..attempts
    /\ \A t, u \in Sent : t.call = u.call => t = u

\* A call of pay that returned Ok has paid exactly once, the median of the quotes
\* its payment was built from, and nothing of it is left on its way to be paid
\* for again: a client that has the hashes need not look back (the loop over
\* tx_hashes).
PaidExactlyOnce ==
    \A r \in receipts : \E p \in from_quotes(r.quotes) :
        /\ \A t \in transactions : t.call # r.call
        /\ {t \in mined : t.call = r.call} =
               IF p.amount = 0 THEN {}
               ELSE {[call |-> r.call, quote |-> paid_quote(p), amount |-> p.amount]}

\* Storer u begins to verify.
Begins(u) == ~ Running(u) /\ check'[u] # check[u]

\* What one storer has accepted, no storer that is then given the same quotes, in
\* any order, refuses or finds underpaid: it starts to look quotes up, one of
\* which has its money (verify tries every quote that ties).
StorersFollow ==
    [][\A s, u \in Storer :
           /\ Status(s) = "accepted" /\ Begins(u)
           /\ SameQuotes(check[s].payment.quotes, check'[u].payment.quotes)
           => check'[u].status = "running" /\ check'[u].paidBefore]_vars

=============================================================================
