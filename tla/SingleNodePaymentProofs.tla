---------------------- MODULE SingleNodePaymentProofs ----------------------
(***************************************************************************)
(* SingleNodePayment for every group size, every number of clients and      *)
(* storers, and whatever quotes are offered.  The invariant says that money *)
(* on-chain is always three times the price of its quote, that a call of    *)
(* pay sends one payment at most and a receipt stands for exactly one that  *)
(* was mined, and that a storer who was given quotes already paid for still *)
(* has the paid one to look up.                                             *)
(***************************************************************************)
EXTENDS SingleNodePayment, MedianQuoteProofs

\* Every payment a client has is what from_quotes made of its list.
ClientsHonest ==
    \A c \in Client : payment[c] # NoPayment => payment[c] \in from_quotes(list[c])

PayersReady == \A c \in Client : paying[c] # 0 => payment[c] # NoPayment

\* What is paid for a quote, or about to be, is three times its price.
AmountsHonest ==
    /\ \A t \in Sent : t.amount = 3 * t.quote.price
    /\ \A q \in Quote : completedPayments[q] \in {0, 3 * q.price}
    /\ \A t \in mined : completedPayments[t.quote] = t.amount

\* A call that has not returned is one client's, and has sent its batch at most.
CallsHonest ==
    /\ mined \cap transactions = {}
    /\ \A c \in Client : paying[c] \in 0..attempts
    /\ \A c \in Client, t \in Sent :
           t.call = paying[c] => t \in Batch(payment[c], paying[c])

\* A receipt's call has all of its batch mined, and nothing else ever sent.
ReceiptsPaid ==
    \A r \in receipts :
        /\ r.call \in 1..attempts
        /\ \A t \in transactions : t.call # r.call
        /\ \E p \in from_quotes(r.quotes) :
               {t \in mined : t.call = r.call} = Batch(p, r.call)

\* Some quote at these positions is paid enough for the payment p.
PaidAmong(p, positions) ==
    \E k \in positions : completedPayments[p.quotes[k]] >= p.amount

CheckHonest(k) ==
    /\ \E quotes \in Group : k.payment \in from_quotes(quotes)
    /\ k.left \subseteq Tied(k.payment)
    /\ k.status \in {"running", "accepted"} => k.payment.amount > 0
    /\ k.status = "running" /\ k.paidBefore => PaidAmong(k.payment, k.left)
    /\ k.status = "underpaid" => ~ k.paidBefore
    /\ k.status = "accepted" => PaidAmong(k.payment, Tied(k.payment))

ChecksHonest == \A s \in Storer : check[s] # NoPayment => CheckHonest(check[s])

IInv ==
    /\ TypeOK
    /\ ClientsHonest
    /\ PayersReady
    /\ AmountsHonest
    /\ CallsHonest
    /\ OnePaymentPerCall
    /\ ReceiptsPaid
    /\ ChecksHonest

-----------------------------------------------------------------------------
(* Payments *)

LEMMA PaymentFields ==
    ASSUME NEW quotes \in Seq(Quote), NEW p \in from_quotes(quotes)
    PROVE  /\ quotes \in Group
           /\ p \in Payment
           /\ p.quotes = SortedByPrice(quotes) /\ p.quotes \in Group
           /\ p.amount = 3 * paid_quote(p).price /\ p.amount \in Amount
           /\ paid_quote(p) \in Quote
           /\ DOMAIN p.quotes = 1..N /\ MedianPosition \in 1..N
<1>1. Len(quotes) = CLOSE_GROUP_SIZE
    BY DEF from_quotes
<1>2. quotes \in Group
    BY <1>1 DEF Group
<1> DEFINE sorted == SortedByPrice(quotes)
<1>3. sorted \in Group
    BY <1>2, SortedIsSame
<1>4. PICK amount \in Tripled(sorted[MedianPosition].price) :
          p = [quotes |-> sorted, amount |-> amount]
    BY <1>1, Zenon DEF from_quotes
<1>5. p.quotes = sorted /\ p.amount = amount
    BY <1>4
<1>6. amount = 3 * sorted[MedianPosition].price /\ amount \in Amount
    BY <1>4 DEF Tripled
<1>7. /\ DOMAIN sorted = 1..N /\ MedianPosition \in 1..N
      /\ sorted[MedianPosition] \in Quote
    BY <1>3, GroupFields
<1> HIDE DEF sorted
<1>8. p \in Payment
    BY <1>3, <1>4, <1>6 DEF Payment
<1>9. paid_quote(p) = sorted[MedianPosition]
    BY <1>5 DEF paid_quote
<1> QED  BY <1>2, <1>3, <1>5, <1>6, <1>7, <1>8, <1>9 DEF sorted

LEMMA GroupIsSeq == Group \subseteq Seq(Quote)
BY GroupAssumption DEF Group

\* Of two lists of the same quotes, in any two orders, the amounts are the same,
\* and the quote that the one pays is among those the other looks up: why verify
\* tries every quote that ties with its median.
THEOREM SameQuotesPaid ==
    ASSUME NEW mine \in Seq(Quote), NEW p \in from_quotes(mine),
           NEW yours \in Seq(Quote), NEW q \in from_quotes(yours),
           SameQuotes(mine, yours)
    PROVE  /\ p.amount = q.amount
           /\ \E k \in Tied(q) : q.quotes[k] = paid_quote(p)
<1>1. mine \in Group /\ yours \in Group
    BY PaymentFields
<1>2. p.quotes = SortedByPrice(mine) /\ q.quotes = SortedByPrice(yours)
    BY PaymentFields
<1>3. paid_quote(p).price = paid_quote(q).price
    BY <1>1, <1>2, MedianIgnoresOrder DEF paid_quote
<1>4. p.amount = q.amount
    BY <1>3, PaymentFields
<1>5. \E i \in 1..N : mine[i] = paid_quote(p)
  <2>1. \E i \in 1..N : Position(mine, i) = MedianPosition
    BY <1>1, PositionTaken, GroupFields
  <2>2. PICK i \in 1..N : i = CHOOSE j \in 1..N : Position(mine, j) = MedianPosition
    BY <2>1
  <2>3. SortedByPrice(mine)[MedianPosition] = mine[i]
    BY <1>1, <2>2, GroupFields DEF SortedByPrice
  <2> QED  BY <1>2, <2>3 DEF paid_quote
<1>6. \E j \in 1..N : yours[j] = paid_quote(p)
  <2>1. PICK i \in 1..N : mine[i] = paid_quote(p)
    BY <1>5
  <2>2. \E j \in 1..N : yours[j] = mine[i]
    BY <1>1, SameMembers, Zenon
  <2> QED  BY <2>1, <2>2
<1>7. \E k \in 1..N : q.quotes[k] = paid_quote(p)
  <2>1. SortedByPrice(yours) \in Group /\ SameQuotes(yours, SortedByPrice(yours))
    BY <1>1, SortedIsSame
  <2>2. PICK j \in 1..N : yours[j] = paid_quote(p)
    BY <1>6
  <2>3. \E k \in 1..N : SortedByPrice(yours)[k] = yours[j]
    BY <1>1, <2>1, <2>2, SameMembers
  <2> QED  BY <1>2, <2>2, <2>3
<1>8. \E k \in Tied(q) : q.quotes[k] = paid_quote(p)
  <2>1. PICK k \in 1..N : q.quotes[k] = paid_quote(p)
    BY <1>7
  <2>2. DOMAIN q.quotes = 1..N
    BY PaymentFields
  <2>3. k \in Tied(q)
    BY <1>3, <2>1, <2>2 DEF Tied
  <2> QED  BY <2>1, <2>3
<1> QED  BY <1>4, <1>8

\* A payment ties at its own median.
LEMMA TiedPositions ==
    ASSUME NEW quotes \in Seq(Quote), NEW p \in from_quotes(quotes)
    PROVE  /\ Tied(p) \subseteq 1..CLOSE_GROUP_SIZE
           /\ \A k \in Tied(p) : p.quotes[k] \in Quote
BY PaymentFields, GroupFields DEF Tied, N

\* One quote is paid: the one in the middle, and only if it is not free.
LEMMA BatchIsMedian ==
    ASSUME NEW quotes \in Seq(Quote), NEW p \in from_quotes(quotes), NEW call
    PROVE  Batch(p, call) =
               IF p.amount = 0 THEN {}
               ELSE {[call |-> call, quote |-> paid_quote(p), amount |-> p.amount]}
<1>1. DOMAIN p.quotes = 1..N /\ MedianPosition \in 1..N /\ p.amount \in Nat
    BY PaymentFields, AmountAssumption DEF Amount
<1>2. /\ AmountAt(p, MedianPosition) = p.amount
      /\ \A k \in 1..N : k # MedianPosition => AmountAt(p, k) = 0
    BY DEF AmountAt
<1>3. {i \in DOMAIN p.quotes : AmountAt(p, i) > 0} =
          IF p.amount = 0 THEN {} ELSE {MedianPosition}
    BY <1>1, <1>2
<1> QED  BY <1>2, <1>3 DEF Batch, paid_quote

-----------------------------------------------------------------------------
(* The invariant *)

LEMMA InitIInv == Init => IInv
<1> SUFFICES ASSUME Init
             PROVE  IInv
    OBVIOUS
<1>1. TypeOK
  <2>1. <<>> \in Seq(Quote) /\ 0 \in Amount
    BY AmountAssumption DEF Amount
  <2>2. list \in [Client -> Seq(Quote)] /\ completedPayments \in [Quote -> Amount]
    BY <2>1 DEF Init
  <2>3. /\ payment \in [Client -> Payment \cup {NoPayment}]
        /\ check \in [Storer -> Check \cup {NoPayment}]
        /\ attempts \in Nat /\ paying \in [Client -> Nat]
        /\ transactions \subseteq Transaction /\ mined \subseteq Transaction
        /\ receipts \subseteq [call : Nat, quotes : Seq(Quote)]
    BY DEF Init
  <2> QED  BY <2>2, <2>3 DEF TypeOK
<1>2. ClientsHonest /\ PayersReady /\ ReceiptsPaid /\ ChecksHonest
    BY DEF Init, ClientsHonest, PayersReady, ReceiptsPaid, ChecksHonest
<1>3. AmountsHonest
    BY DEF Init, AmountsHonest, Sent
<1>4. CallsHonest /\ OnePaymentPerCall
    BY DEF Init, CallsHonest, OnePaymentPerCall, Sent
<1> QED  BY <1>1, <1>2, <1>3, <1>4 DEF IInv

LEMMA StepFromQuotes ==
    ASSUME IInv, NEW c \in Client, FromQuotes(c)
    PROVE  IInv'
<1> USE DEF IInv
<1>1. PICK offer \in Offers : \E p \in from_quotes(offer) :
          /\ payment' = [payment EXCEPT ![c] = p]
          /\ list' = [list EXCEPT ![c] = offer]
    BY DEF FromQuotes
<1>2. PICK p \in from_quotes(offer) :
          /\ payment' = [payment EXCEPT ![c] = p]
          /\ list' = [list EXCEPT ![c] = offer]
    BY <1>1
<1>3. /\ UNCHANGED <<paying, attempts, transactions, mined, completedPayments,
                     receipts, check>>
      /\ paying[c] = 0
    BY DEF FromQuotes, chain
<1>4. offer \in Seq(Quote) /\ p \in Payment
    BY OffersAssumption, PaymentFields
<1>5. TypeOK'
    BY <1>2, <1>3, <1>4 DEF TypeOK
<1>6. ClientsHonest' /\ PayersReady'
    BY <1>2, <1>3, <1>4 DEF ClientsHonest, PayersReady, FromQuotes, TypeOK
<1>7. AmountsHonest' /\ ReceiptsPaid' /\ OnePaymentPerCall'
    BY <1>3 DEF AmountsHonest, ReceiptsPaid, OnePaymentPerCall, Sent
<1>8. ChecksHonest'
    BY <1>3 DEF ChecksHonest, CheckHonest, PaidAmong
<1>9. CallsHonest'
  <2>1. \A t \in Sent : t.call \in 1..attempts
    BY DEF OnePaymentPerCall
  <2>2. \A d \in Client, t \in Sent : t.call = paying[d] => d # c
    BY <1>3, <2>1
  <2>3. \A d \in Client : d # c => payment'[d] = payment[d]
    BY <1>2 DEF TypeOK
  <2> QED  BY <1>3, <2>2, <2>3 DEF CallsHonest, Sent
<1> QED  BY <1>5, <1>6, <1>7, <1>8, <1>9

\* A call of pay commits to the median at most, under a number not used before.
LEMMA StepPay ==
    ASSUME IInv, NEW c \in Client, Pay(c)
    PROVE  IInv'
<1> USE DEF IInv
<1>1. PICK p : p = payment[c]
    OBVIOUS
<1>2. list[c] \in Seq(Quote) /\ p \in from_quotes(list[c])
    BY <1>1 DEF Pay, ClientsHonest, TypeOK
<1>3. PICK call \in Nat : call = attempts + 1
    BY DEF TypeOK
<1>4. /\ UNCHANGED <<payment, list, mined, completedPayments, receipts, check>>
      /\ attempts' = call /\ paying' = [paying EXCEPT ![c] = call]
      /\ transactions' = transactions \cup Batch(p, call)
    BY <1>1, <1>3 DEF Pay
<1>5. PICK sent : sent = Batch(p, call)
    OBVIOUS
<1>6. /\ sent = IF p.amount = 0 THEN {}
                ELSE {[call |-> call, quote |-> paid_quote(p), amount |-> p.amount]}
      /\ sent \subseteq Transaction
      /\ \A t \in sent : t.amount = 3 * t.quote.price /\ t.call = call
      /\ \A t, u \in sent : t = u
    BY <1>2, <1>5, BatchIsMedian, PaymentFields DEF Transaction
<1>7. transactions' = transactions \cup sent /\ Sent' = Sent \cup sent
    BY <1>4, <1>5 DEF Sent
<1>8. /\ attempts \in Nat /\ call = attempts + 1
      /\ \A t \in Sent : t.call \in 1..attempts
      /\ \A d \in Client : paying[d] \in 0..attempts
    BY <1>3 DEF TypeOK, OnePaymentPerCall, CallsHonest
<1>9. TypeOK'
    BY <1>4, <1>6, <1>7 DEF TypeOK
<1>10. ClientsHonest' /\ PayersReady'
    BY <1>4 DEF ClientsHonest, PayersReady, Pay, TypeOK
<1>11. ChecksHonest'
    BY <1>4 DEF ChecksHonest, CheckHonest, PaidAmong
<1>12. AmountsHonest'
    BY <1>4, <1>6, <1>7 DEF AmountsHonest
<1>13. OnePaymentPerCall'
  <2>1. \A t \in Sent' : t.call \in 1..attempts'
    BY <1>4, <1>6, <1>7, <1>8
  <2>2. ASSUME NEW t \in Sent', NEW u \in Sent', t.call = u.call
        PROVE  t = u
    <3>1. CASE t \in sent
      BY <1>6, <1>7, <1>8, <2>2, <3>1
    <3>2. CASE t \notin sent
      <4>1. t \in Sent /\ t.call # call
        BY <1>7, <1>8, <3>2
      <4>2. u \in Sent
        BY <1>6, <1>7, <2>2, <4>1
      <4> QED  BY <2>2, <4>1, <4>2 DEF OnePaymentPerCall
    <3> QED  BY <3>1, <3>2
  <2> QED  BY <2>1, <2>2 DEF OnePaymentPerCall
<1>14. CallsHonest'
  <2>1. mined' \cap transactions' = {}
    <3>1. \A t \in mined : t.call # call
      BY <1>8 DEF Sent
    <3> QED  BY <1>4, <1>6, <1>7, <3>1 DEF CallsHonest
  <2>2. \A d \in Client : paying'[d] = IF d = c THEN call ELSE paying[d]
    BY <1>4 DEF TypeOK
  <2>3. \A d \in Client : paying'[d] \in 0..attempts'
    BY <1>4, <1>8, <2>2
  <2>4. ASSUME NEW d \in Client, NEW t \in Sent', t.call = paying'[d]
        PROVE  t \in Batch(payment'[d], paying'[d])
    <3>1. CASE d = c
      <4>1. t.call = call
        BY <2>2, <2>4, <3>1
      <4>2. t \in sent
        BY <1>7, <1>8, <4>1
      <4> QED  BY <1>1, <1>4, <1>5, <2>2, <3>1, <4>2
    <3>2. CASE d # c
      <4>1. t.call = paying[d] /\ t.call # call
        BY <1>8, <2>2, <2>4, <3>2
      <4>2. t \in Sent
        BY <1>6, <1>7, <4>1
      <4> QED  BY <1>4, <2>2, <3>2, <4>1, <4>2 DEF CallsHonest
    <3> QED  BY <3>1, <3>2
  <2> QED  BY <2>1, <2>3, <2>4 DEF CallsHonest
<1>15. ReceiptsPaid'
  <2> SUFFICES ASSUME NEW r \in receipts
               PROVE  /\ r.call \in 1..attempts'
                      /\ \A t \in transactions' : t.call # r.call
                      /\ \E q \in from_quotes(r.quotes) :
                             {t \in mined : t.call = r.call} = Batch(q, r.call)
    BY <1>4 DEF ReceiptsPaid
  <2>1. /\ r.call \in 1..attempts
        /\ \A t \in transactions : t.call # r.call
        /\ \E q \in from_quotes(r.quotes) :
               {t \in mined : t.call = r.call} = Batch(q, r.call)
    BY DEF ReceiptsPaid
  <2>2. r.call \in 1..attempts' /\ r.call # call
    BY <1>4, <1>8, <2>1
  <2> QED  BY <1>6, <1>7, <2>1, <2>2
<1> QED  BY <1>9, <1>10, <1>11, <1>12, <1>13, <1>14, <1>15

LEMMA StepPayReturns ==
    ASSUME IInv, NEW c \in Client, PayReturns(c)
    PROVE  IInv'
<1> USE DEF IInv
<1>1. PICK r : r = [call |-> paying[c], quotes |-> list[c]]
    OBVIOUS
<1>2. /\ UNCHANGED <<payment, list, attempts, transactions, mined,
                     completedPayments, check>>
      /\ paying' = [paying EXCEPT ![c] = 0] /\ receipts' = receipts \cup {r}
      /\ paying[c] # 0
    BY <1>1 DEF PayReturns, chain
<1>3. /\ r \in [call : Nat, quotes : Seq(Quote)]
      /\ r.call = paying[c] /\ r.quotes = list[c]
      /\ r.call \in 0..attempts /\ attempts \in Nat
    BY <1>1 DEF TypeOK, CallsHonest
<1>4. TypeOK'
    BY <1>2, <1>3 DEF TypeOK
<1>5. \A d \in Client : paying'[d] = IF d = c THEN 0 ELSE paying[d]
    BY <1>2 DEF TypeOK
<1>6. ClientsHonest' /\ AmountsHonest' /\ OnePaymentPerCall' /\ PayersReady'
    BY <1>2, <1>5 DEF ClientsHonest, AmountsHonest, OnePaymentPerCall, PayersReady, Sent
<1>7. CallsHonest'
  <2>1. \A t \in Sent : t.call \in 1..attempts
    BY DEF OnePaymentPerCall
  <2>2. ASSUME NEW d \in Client, NEW t \in Sent, t.call = paying'[d]
        PROVE  t \in Batch(payment[d], paying'[d])
    <3>1. d # c
      BY <1>5, <2>1, <2>2
    <3> QED  BY <1>5, <2>2, <3>1 DEF CallsHonest
  <2>3. \A d \in Client : paying'[d] \in 0..attempts
    BY <1>3, <1>5 DEF CallsHonest
  <2> QED  BY <1>2, <2>2, <2>3 DEF CallsHonest, Sent
<1>8. ReceiptsPaid'
  <2>1. payment[c] \in from_quotes(list[c])
    BY <1>2 DEF PayersReady, ClientsHonest, TypeOK
  <2>2. PICK p \in from_quotes(list[c]) : p = payment[c]
    BY <2>1
  <2>3. Batch(p, r.call) \subseteq mined
    BY <1>3, <2>2 DEF PayReturns
  <2>4. \A t \in Sent : t.call = r.call => t \in Batch(p, r.call)
    BY <1>3, <2>2 DEF CallsHonest
  <2>5. \A t \in Batch(p, r.call) : t.call = r.call
    BY <1>3, BatchIsMedian
  <2>6. \A t \in transactions : t.call # r.call
    BY <2>3, <2>4 DEF CallsHonest, Sent
  <2>7. {t \in mined : t.call = r.call} = Batch(p, r.call)
    BY <2>3, <2>4, <2>5 DEF Sent
  <2>8. r.call \in 1..attempts
    BY <1>2, <1>3
  <2> QED  BY <1>2, <1>3, <2>6, <2>7, <2>8 DEF ReceiptsPaid
<1>9. ChecksHonest'
    BY <1>2 DEF ChecksHonest, CheckHonest, PaidAmong
<1> QED  BY <1>4, <1>6, <1>7, <1>8, <1>9

LEMMA StepPayFails ==
    ASSUME IInv, NEW c \in Client, PayFails(c)
    PROVE  IInv'
<1> USE DEF IInv
<1>1. /\ UNCHANGED <<payment, list, attempts, transactions, mined,
                     completedPayments, receipts, check>>
      /\ paying' = [paying EXCEPT ![c] = 0]
    BY DEF PayFails, chain
<1>2. TypeOK'
    BY <1>1 DEF TypeOK
<1>3. \A d \in Client : paying'[d] = IF d = c THEN 0 ELSE paying[d]
    BY <1>1 DEF TypeOK
<1>4. /\ ClientsHonest' /\ AmountsHonest' /\ OnePaymentPerCall' /\ PayersReady'
      /\ ReceiptsPaid'
    BY <1>1, <1>3 DEF ClientsHonest, AmountsHonest, OnePaymentPerCall, PayersReady,
        ReceiptsPaid, Sent
<1>5. ChecksHonest'
    BY <1>1 DEF ChecksHonest, CheckHonest, PaidAmong
<1>6. CallsHonest'
  <2>1. \A t \in Sent : t.call \in 1..attempts
    BY DEF OnePaymentPerCall
  <2>2. ASSUME NEW d \in Client, NEW t \in Sent, t.call = paying'[d]
        PROVE  t \in Batch(payment[d], paying'[d])
    <3>1. d # c
      BY <1>3, <2>1, <2>2
    <3> QED  BY <1>3, <2>2, <3>1 DEF CallsHonest
  <2>3. \A d \in Client : paying'[d] \in 0..attempts
    BY <1>3 DEF CallsHonest, TypeOK
  <2> QED  BY <1>1, <2>2, <2>3 DEF CallsHonest, Sent
<1> QED  BY <1>2, <1>4, <1>5, <1>6

\* What is paid stays paid, for storers in the middle of their lookups, when the
\* vault only ever gains.
LEMMA PaidStays ==
    ASSUME IInv, UNCHANGED check,
           completedPayments' \in [Quote -> Amount],
           \A q \in Quote : completedPayments'[q] >= completedPayments[q]
    PROVE  ChecksHonest'
<1> USE DEF IInv
<1>1. \A q \in Quote : completedPayments[q] \in Nat /\ completedPayments'[q] \in Nat
    BY AmountAssumption DEF TypeOK, Amount
<1>2. ChecksHonest'
  <2> SUFFICES ASSUME NEW s \in Storer, check[s] # NoPayment
               PROVE  CheckHonest(check[s])'
    BY DEF ChecksHonest
  <2>1. PICK k : k = check[s]
    OBVIOUS
  <2>2. CheckHonest(k)
    BY <2>1 DEF ChecksHonest
  <2>3. PICK quotes \in Group : k.payment \in from_quotes(quotes)
    BY <2>2 DEF CheckHonest
  <2>4. PICK p \in from_quotes(quotes) : p = k.payment
    BY <2>3
  <2>5. /\ \A i \in Tied(p) : p.quotes[i] \in Quote
        /\ p.amount \in Nat
    BY <2>3, <2>4, GroupIsSeq, TiedPositions, PaymentFields, AmountAssumption DEF Amount
  <2>6. ASSUME NEW S, S \subseteq Tied(p), PaidAmong(p, S)
        PROVE  PaidAmong(p, S)'
    BY <1>1, <2>5, <2>6 DEF PaidAmong
  <2>7. CheckHonest(k)'
    BY <2>2, <2>4, <2>6 DEF CheckHonest
  <2> QED  BY <2>1, <2>7
<1> QED  BY <1>2

LEMMA StepMine ==
    ASSUME IInv, NEW t \in transactions, Mine(t)
    PROVE  IInv'
<1> USE DEF IInv
<1>1. /\ UNCHANGED <<payment, list, paying, attempts, receipts, check>>
      /\ transactions' = transactions \ {t} /\ mined' = mined \cup {t}
      /\ completedPayments' = [completedPayments EXCEPT ![t.quote] = t.amount]
    BY DEF Mine, client
<1>2. /\ t \in Transaction /\ t.quote \in Quote /\ t.amount \in Amount
      /\ t.amount = 3 * t.quote.price /\ t.quote.price \in Nat
      /\ t \in Sent /\ Sent' = Sent
    BY <1>1, AmountAssumption DEF TypeOK, Transaction, AmountsHonest, Quote, Amount, Sent
<1>3. TypeOK'
    BY <1>1, <1>2 DEF TypeOK
<1>4. ClientsHonest' /\ PayersReady'
    BY <1>1 DEF ClientsHonest, PayersReady
<1>5. \A q \in Quote : completedPayments'[q] =
          IF q = t.quote THEN t.amount ELSE completedPayments[q]
    BY <1>1 DEF TypeOK
<1>6. AmountsHonest'
  <2>1. \A u \in Sent' : u.amount = 3 * u.quote.price
    BY <1>2 DEF AmountsHonest
  <2>2. \A q \in Quote : completedPayments'[q] \in {0, 3 * q.price}
    BY <1>2, <1>5 DEF AmountsHonest
  <2>3. ASSUME NEW u \in mined'
        PROVE  completedPayments'[u.quote] = u.amount
    <3>1. u \in Sent /\ u.quote \in Quote
      BY <1>1, <1>2 DEF Sent, TypeOK, Transaction
    <3>2. CASE u.quote = t.quote
      BY <1>2, <1>5, <3>1, <3>2 DEF AmountsHonest
    <3>3. CASE u.quote # t.quote
      BY <1>1, <1>5, <3>1, <3>3 DEF AmountsHonest
    <3> QED  BY <3>2, <3>3
  <2> QED  BY <2>1, <2>2, <2>3 DEF AmountsHonest
<1>7. \A q \in Quote : completedPayments'[q] >= completedPayments[q]
  <2> SUFFICES ASSUME NEW q \in Quote
               PROVE  completedPayments'[q] >= completedPayments[q]
    OBVIOUS
  <2>1. completedPayments[q] \in Nat /\ completedPayments[q] \in {0, 3 * q.price}
    BY AmountAssumption DEF TypeOK, Amount, AmountsHonest
  <2> QED  BY <1>2, <1>5, <2>1
<1>8. ChecksHonest'
    BY <1>1, <1>3, <1>7, PaidStays DEF TypeOK
<1>9. OnePaymentPerCall' /\ CallsHonest'
    BY <1>1, <1>2 DEF OnePaymentPerCall, CallsHonest
<1>10. ReceiptsPaid'
  <2>1. \A r \in receipts : t.call # r.call
    BY DEF ReceiptsPaid
  <2>2. \A r \in receipts :
            {u \in mined' : u.call = r.call} = {u \in mined : u.call = r.call}
    BY <1>1, <2>1
  <2> QED  BY <1>1, <2>2 DEF ReceiptsPaid
<1> QED  BY <1>3, <1>4, <1>6, <1>8, <1>9, <1>10

LEMMA StepDrop ==
    ASSUME IInv, NEW t \in transactions, Drop(t)
    PROVE  IInv'
<1> USE DEF IInv
<1>1. /\ UNCHANGED <<payment, list, paying, attempts, mined, completedPayments,
                     receipts, check>>
      /\ transactions' = transactions \ {t} /\ Sent' \subseteq Sent
    BY DEF Drop, client, Sent
<1>2. TypeOK'
    BY <1>1 DEF TypeOK
<1>3. ClientsHonest' /\ AmountsHonest' /\ ReceiptsPaid' /\ PayersReady'
    BY <1>1 DEF ClientsHonest, AmountsHonest, ReceiptsPaid, PayersReady
<1>4. ChecksHonest'
    BY <1>1 DEF ChecksHonest, CheckHonest, PaidAmong
<1>5. OnePaymentPerCall' /\ CallsHonest'
    BY <1>1 DEF OnePaymentPerCall, CallsHonest
<1> QED  BY <1>2, <1>3, <1>4, <1>5

-----------------------------------------------------------------------------
(* Storers *)

\* Only the storer's own check matters to a step of a storer.
LEMMA StorerSteps ==
    ASSUME IInv, NEW s \in Storer, NEW k \in Check, CheckHonest(k),
           check' = [check EXCEPT ![s] = k],
           UNCHANGED <<client, chain, receipts>>
    PROVE  IInv'
<1> USE DEF IInv
<1>1. UNCHANGED <<payment, list, paying, attempts, transactions, mined,
                  completedPayments, receipts>>
    BY DEF client, chain
<1>2. TypeOK'
    BY <1>1 DEF TypeOK
<1>3. ClientsHonest' /\ AmountsHonest' /\ ReceiptsPaid' /\ PayersReady'
    BY <1>1 DEF ClientsHonest, AmountsHonest, ReceiptsPaid, PayersReady, Sent
<1>4. ChecksHonest'
  <2> SUFFICES ASSUME NEW u \in Storer, (check[u] # NoPayment)'
               PROVE  CheckHonest(check[u])'
    BY DEF ChecksHonest
  <2>1. PICK v : v = check'[u]
    OBVIOUS
  <2>2. v = k \/ (v = check[u] /\ check[u] # NoPayment)
    BY <2>1 DEF TypeOK
  <2>3. CheckHonest(v)
    BY <2>2 DEF ChecksHonest
  <2>4. CheckHonest(v)'
    BY <1>1, <2>3 DEF CheckHonest, PaidAmong
  <2> QED  BY <2>1, <2>4 DEF CheckHonest, PaidAmong
<1>5. OnePaymentPerCall' /\ CallsHonest'
    BY <1>1 DEF OnePaymentPerCall, CallsHonest, Sent
<1> QED  BY <1>2, <1>3, <1>4, <1>5

LEMMA ReceiptHasMoney ==
    ASSUME IInv, NEW r \in receipts
    PROVE  \E p \in from_quotes(r.quotes) :
               completedPayments[paid_quote(p)] >= p.amount
<1>1. PICK p \in from_quotes(r.quotes) :
          {t \in mined : t.call = r.call} = Batch(p, r.call)
    BY DEF IInv, ReceiptsPaid
<1>2. r.quotes \in Seq(Quote)
    BY DEF IInv, TypeOK
<1>3. /\ paid_quote(p) \in Quote /\ p.amount \in Nat
      /\ completedPayments[paid_quote(p)] \in Nat
    BY <1>1, <1>2, PaymentFields, AmountAssumption DEF IInv, TypeOK, Amount
<1>4. CASE p.amount # 0
  <2>1. PICK t : t = [call |-> r.call, quote |-> paid_quote(p), amount |-> p.amount]
    OBVIOUS
  <2>2. t \in mined
    BY <1>1, <1>2, <1>4, <2>1, BatchIsMedian
  <2> QED  BY <1>1, <1>3, <2>1, <2>2 DEF IInv, AmountsHonest
<1> QED  BY <1>1, <1>3, <1>4

LEMMA StepVerify ==
    ASSUME IInv, NEW s \in Storer, NEW quotes \in Offers, Verify(s, quotes)
    PROVE  IInv'
<1> USE DEF IInv
<1>1. quotes \in Seq(Quote)
    BY OffersAssumption
<1>2. PICK p \in from_quotes(quotes) :
          check' = [check EXCEPT ![s] =
               [payment    |-> p,
                left       |-> IF Refuses(p) THEN {} ELSE Tied(p),
                status     |-> IF Refuses(p) THEN "refused" ELSE "running",
                paidBefore |->
                    \/ \E r \in receipts : SameQuotes(r.quotes, quotes)
                    \/ \E i \in Tied(p) :
                           completedPayments[p.quotes[i]] >= p.amount]]
    BY DEF Verify
<1>3. UNCHANGED <<client, chain, receipts>>
    BY DEF Verify
<1> DEFINE receipted == \E r \in receipts : SameQuotes(r.quotes, quotes)
           before == \/ receipted
                     \/ \E i \in Tied(p) :
                            completedPayments[p.quotes[i]] >= p.amount
           k == [payment    |-> p,
                 left       |-> IF Refuses(p) THEN {} ELSE Tied(p),
                 status     |-> IF Refuses(p) THEN "refused" ELSE "running",
                 paidBefore |-> before]
<1>4. /\ p \in Payment /\ quotes \in Group /\ Tied(p) \subseteq 1..CLOSE_GROUP_SIZE
      /\ p.amount \in Nat
    BY <1>1, <1>2, PaymentFields, TiedPositions, AmountAssumption DEF Amount
<1>5. ~ Refuses(p) => p.amount > 0
    BY <1>4 DEF Refuses
<1>6. before => PaidAmong(p, Tied(p))
  <2> SUFFICES ASSUME NEW r \in receipts, SameQuotes(r.quotes, quotes)
               PROVE  PaidAmong(p, Tied(p))
    BY DEF PaidAmong
  <2>1. r.quotes \in Seq(Quote)
    BY DEF TypeOK
  <2>2. PICK q \in from_quotes(r.quotes) :
            completedPayments[paid_quote(q)] >= q.amount
    BY ReceiptHasMoney
  <2>3. q.amount = p.amount /\ \E i \in Tied(p) : p.quotes[i] = paid_quote(q)
    BY <1>1, <1>2, <2>1, <2>2, SameQuotesPaid
  <2> QED  BY <2>2, <2>3 DEF PaidAmong
<1>7. before \in BOOLEAN
    OBVIOUS
<1> HIDE DEF before
<1>8. k \in Check
    BY <1>4, <1>7 DEF Check
<1>9. CheckHonest(k)
    BY <1>2, <1>4, <1>5, <1>6 DEF CheckHonest
<1> QED  BY <1>2, <1>3, <1>8, <1>9, StorerSteps DEF before

LEMMA StepLookup ==
    ASSUME IInv, NEW s \in Storer, Lookup(s)
    PROVE  IInv'
<1> USE DEF IInv
<1>1. PICK old \in Check : old = check[s] /\ old.status = "running"
    BY DEF Lookup, Running, TypeOK
<1> DEFINE paid(i) == completedPayments[old.payment.quotes[i]] >= old.payment.amount
<1>2. PICK i \in old.left :
          check' = [check EXCEPT
              ![s].left   = old.left \ {i},
              ![s].status = IF paid(i) THEN "accepted"
                            ELSE IF old.left \ {i} = {} THEN "underpaid"
                            ELSE "running"]
    BY <1>1, Zenon DEF Lookup
<1>3. UNCHANGED <<client, chain, receipts>>
    BY DEF Lookup
<1>4. CheckHonest(old)
    BY <1>1 DEF ChecksHonest, Lookup, Running
<1> DEFINE status == IF paid(i) THEN "accepted"
                     ELSE IF old.left \ {i} = {} THEN "underpaid" ELSE "running"
           k == [old EXCEPT !.left = old.left \ {i}, !.status = status]
<1>5. check' = [check EXCEPT ![s] = k]
    BY <1>1, <1>2 DEF TypeOK
<1>6. /\ status \in {"accepted", "underpaid", "running"}
      /\ status = "accepted" => paid(i)
      /\ status = "underpaid" => ~ paid(i) /\ old.left \ {i} = {}
      /\ status = "running" => ~ paid(i)
    OBVIOUS
<1>7. old.status = "running" /\ old.paidBefore => \E j \in old.left : paid(j)
    BY <1>4 DEF CheckHonest, PaidAmong
<1>8. i \in Tied(old.payment)
    BY <1>4 DEF CheckHonest
<1> HIDE DEF status
<1>9. k \in Check /\ k.payment = old.payment /\ k.left = old.left \ {i}
      /\ k.status = status /\ k.paidBefore = old.paidBefore
    BY <1>1, <1>6 DEF Check
<1>10. CheckHonest(k)
  <2>1. /\ \E quotes \in Group : k.payment \in from_quotes(quotes)
        /\ k.left \subseteq Tied(k.payment)
        /\ k.status \in {"running", "accepted"} => k.payment.amount > 0
    BY <1>1, <1>4, <1>9 DEF CheckHonest
  <2>2. k.status = "running" /\ k.paidBefore => PaidAmong(k.payment, k.left)
    BY <1>1, <1>6, <1>7, <1>9 DEF PaidAmong
  <2>3. k.status = "underpaid" => ~ k.paidBefore
    BY <1>1, <1>6, <1>7, <1>9
  <2>4. k.status = "accepted" => PaidAmong(k.payment, Tied(k.payment))
    BY <1>6, <1>8, <1>9 DEF PaidAmong
  <2> QED  BY <2>1, <2>2, <2>3, <2>4 DEF CheckHonest
<1> HIDE DEF k
<1> QED  BY <1>3, <1>5, <1>9, <1>10, StorerSteps

LEMMA StepLookupFails ==
    ASSUME IInv, NEW s \in Storer, LookupFails(s)
    PROVE  IInv'
<1> USE DEF IInv
<1>1. PICK old \in Check : old = check[s]
    BY DEF LookupFails, Running, TypeOK
<1> DEFINE k == [old EXCEPT !.status = "failed"]
<1>2. check' = [check EXCEPT ![s] = k] /\ UNCHANGED <<client, chain, receipts>>
    BY <1>1 DEF LookupFails, TypeOK
<1>3. CheckHonest(old)
    BY <1>1 DEF ChecksHonest, LookupFails, Running
<1>4. k \in Check
    BY DEF Check
<1>5. CheckHonest(k)
    BY <1>1, <1>3 DEF CheckHonest, Check
<1> HIDE DEF k
<1> QED  BY <1>2, <1>4, <1>5, StorerSteps

-----------------------------------------------------------------------------
(* The specification *)

LEMMA StepIInv == IInv /\ [Next]_vars => IInv'
<1> SUFFICES ASSUME IInv, [Next]_vars
             PROVE  IInv'
    OBVIOUS
<1>1. ASSUME NEW c \in Client, FromQuotes(c) \/ Pay(c) \/ PayReturns(c) \/ PayFails(c)
      PROVE  IInv'
    BY <1>1, StepFromQuotes, StepPay, StepPayReturns, StepPayFails
<1>2. ASSUME NEW t \in transactions, Mine(t) \/ Drop(t)
      PROVE  IInv'
    BY <1>2, StepMine, StepDrop
<1>3. ASSUME NEW s \in Storer,
             (\E quotes \in Offers : Verify(s, quotes)) \/ Lookup(s) \/ LookupFails(s)
      PROVE  IInv'
    BY <1>3, StepVerify, StepLookup, StepLookupFails
<1>4. CASE UNCHANGED vars
    BY <1>4 DEF vars, IInv, TypeOK, ClientsHonest, PayersReady, AmountsHonest,
        ReceiptsPaid, ChecksHonest, CheckHonest, PaidAmong, CallsHonest,
        OnePaymentPerCall, Sent
<1> QED  BY <1>1, <1>2, <1>3, <1>4 DEF Next

\* The invariant above, of every behaviour.
THEOREM Invariance == Spec => []IInv
BY InitIInv, StepIInv, PTL DEF Spec

\* Clients, chain and storers keep the types single_node.rs gives them.
THEOREM TypeCorrect == Spec => []TypeOK
<1>1. IInv => TypeOK
    BY DEF IInv
<1> QED  BY <1>1, Invariance, PTL

\* verify never finds underpaid what pay returned Ok for before it began,
\* whatever the order of the quotes and however long the lookups take.
THEOREM PaymentSuffices == Spec => []PaidIsNeverUnderpaid
<1>1. IInv => PaidIsNeverUnderpaid
  <2> SUFFICES ASSUME IInv, NEW s \in Storer, Status(s) = "underpaid"
               PROVE  ~ check[s].paidBefore
    BY DEF PaidIsNeverUnderpaid
  <2> QED  BY DEF IInv, ChecksHonest, CheckHonest, Status
<1> QED  BY <1>1, Invariance, PTL

\* verify accepts only what the vault was paid for, at the median's price.
THEOREM NothingIsFree == Spec => []AcceptedWasPaid
<1>1. IInv => AcceptedWasPaid
  <2> SUFFICES ASSUME IInv, NEW s \in Storer, Status(s) = "accepted"
               PROVE  \E i \in 1..CLOSE_GROUP_SIZE :
                          LET q == check[s].payment.quotes[i]
                          IN  /\ q.price = paid_quote(check[s].payment).price
                              /\ completedPayments[q] >= 3 * q.price
                              /\ q.price > 0
    BY DEF AcceptedWasPaid
  <2>1. PICK k : k = check[s] /\ CheckHonest(k) /\ k.status = "accepted"
    BY DEF IInv, ChecksHonest, Status
  <2>2. PICK quotes \in Group : k.payment \in from_quotes(quotes)
    BY <2>1 DEF CheckHonest
  <2>3. PICK p \in from_quotes(quotes) : p = k.payment
    BY <2>2
  <2>4. /\ quotes \in Seq(Quote)
        /\ p.amount = 3 * paid_quote(p).price /\ paid_quote(p) \in Quote
    BY <2>2, <2>3, GroupIsSeq, PaymentFields
  <2>5. PICK i \in Tied(p) : completedPayments[p.quotes[i]] >= p.amount
    BY <2>1, <2>3 DEF CheckHonest, PaidAmong
  <2>6. p.amount > 0
    BY <2>1, <2>3 DEF CheckHonest
  <2>7. i \in 1..CLOSE_GROUP_SIZE /\ p.quotes[i].price = paid_quote(p).price
    BY <2>4, <2>5, TiedPositions DEF Tied
  <2>8. paid_quote(p).price \in Nat
    BY <2>4, AmountAssumption DEF Quote, Amount
  <2>9. paid_quote(p).price > 0
    BY <2>4, <2>6, <2>8
  <2> QED  BY <2>1, <2>3, <2>4, <2>5, <2>7, <2>9
<1> QED  BY <1>1, Invariance, PTL

\* A payment's amount is that of any group of the same quotes.
LEMMA SortedAmount ==
    ASSUME NEW quotes \in Group, NEW p \in from_quotes(quotes)
    PROVE  p.amount = 3 * SortedByPrice(p.quotes)[MedianPosition].price
<1>1. /\ p.quotes \in Group /\ p.quotes = SortedByPrice(quotes)
      /\ p.amount = 3 * paid_quote(p).price
    BY GroupIsSeq, PaymentFields
<1>2. SameQuotes(quotes, p.quotes)
    BY <1>1, SortedIsSame
<1>3. SortedByPrice(quotes)[MedianPosition].price
      = SortedByPrice(p.quotes)[MedianPosition].price
    BY <1>1, <1>2, MedianIgnoresOrder
<1> QED  BY <1>1, <1>3 DEF paid_quote

\* A client and a storer that hold the same quotes, each in its own order,
\* want the same amount for them.
THEOREM Agreement == Spec => []SidesAgree
<1>1. IInv => SidesAgree
  <2> SUFFICES ASSUME IInv, NEW s \in Storer, NEW c \in Client,
                      check[s] # NoPayment, payment[c] # NoPayment,
                      SameQuotes(payment[c].quotes, check[s].payment.quotes)
               PROVE  payment[c].amount = check[s].payment.amount
    BY DEF SidesAgree
  <2>1. list[c] \in Seq(Quote) /\ payment[c] \in from_quotes(list[c])
    BY DEF IInv, TypeOK, ClientsHonest
  <2>2. PICK mine \in Group : payment[c] \in from_quotes(mine)
    BY <2>1, PaymentFields
  <2>3. PICK yours \in Group : check[s].payment \in from_quotes(yours)
    BY DEF IInv, ChecksHonest, CheckHonest
  <2>4. payment[c].quotes \in Group /\ check[s].payment.quotes \in Group
    BY <2>2, <2>3, GroupIsSeq, PaymentFields
  <2>5. SortedByPrice(payment[c].quotes)[MedianPosition].price
        = SortedByPrice(check[s].payment.quotes)[MedianPosition].price
    BY <2>4, MedianIgnoresOrder
  <2> QED  BY <2>2, <2>3, <2>5, SortedAmount
<1> QED  BY <1>1, Invariance, PTL

\* However often pay is called, and whatever becomes of its transactions, each call
\* makes one payment at most; what is paid twice was paid by two calls.
THEOREM BoundedSpending == Spec => []OnePaymentPerCall
<1>1. IInv => OnePaymentPerCall
    BY DEF IInv
<1> QED  BY <1>1, Invariance, PTL

LEMMA AcceptedHasMoney ==
    ASSUME IInv, NEW s \in Storer, Status(s) = "accepted",
           NEW quotes \in Seq(Quote), NEW p \in from_quotes(quotes),
           SameQuotes(check[s].payment.quotes, p.quotes)
    PROVE  ~ Refuses(p) /\ PaidAmong(p, Tied(p))
<1>1. PICK k : k = check[s] /\ CheckHonest(k) /\ k.status = "accepted"
    BY DEF IInv, ChecksHonest, Status
<1>2. PICK mine \in Group : k.payment \in from_quotes(mine)
    BY <1>1 DEF CheckHonest
<1>3. PICK theirs \in from_quotes(mine) : theirs = k.payment
    BY <1>2
<1>4. /\ theirs.quotes \in Group /\ quotes \in Group
      /\ p.quotes \in Group
      /\ theirs.amount = 3 * paid_quote(theirs).price /\ paid_quote(theirs) \in Quote
      /\ p.amount = 3 * paid_quote(p).price /\ paid_quote(p) \in Quote
    BY GroupIsSeq, PaymentFields
<1>5. SameQuotes(theirs.quotes, p.quotes)
    BY <1>1, <1>3
<1>6. theirs.amount = p.amount
  <2>1. theirs.amount = 3 * SortedByPrice(theirs.quotes)[MedianPosition].price
    BY SortedAmount
  <2>2. SortedByPrice(theirs.quotes)[MedianPosition].price
        = SortedByPrice(p.quotes)[MedianPosition].price
    BY <1>4, <1>5, MedianIgnoresOrder
  <2>3. p.amount = 3 * SortedByPrice(p.quotes)[MedianPosition].price
    BY <1>4, SortedAmount
  <2> QED  BY <2>1, <2>2, <2>3
<1>7. paid_quote(theirs).price \in Nat /\ paid_quote(p).price \in Nat
    BY <1>4, AmountAssumption DEF Quote, Amount
<1>8. paid_quote(theirs).price = paid_quote(p).price
    BY <1>4, <1>6, <1>7
<1>9. PICK i \in Tied(theirs) : completedPayments[theirs.quotes[i]] >= theirs.amount
    BY <1>1, <1>3 DEF CheckHonest, PaidAmong
<1>10. i \in 1..N /\ theirs.quotes[i].price = paid_quote(theirs).price
    BY <1>4, GroupFields DEF Tied
<1>11. PICK j \in 1..N : p.quotes[j] = theirs.quotes[i]
    BY <1>4, <1>5, <1>10, SameMembers
<1>12. j \in Tied(p)
    BY <1>4, <1>8, <1>10, <1>11, GroupFields DEF Tied
<1>13. PaidAmong(p, Tied(p))
    BY <1>6, <1>9, <1>11, <1>12 DEF PaidAmong
<1>14. p.amount > 0
    BY <1>1, <1>3, <1>6 DEF CheckHonest
<1> QED  BY <1>4, <1>7, <1>13, <1>14 DEF Refuses

\* A storer begins to verify only by a call of verify.
LEMMA OnlyVerifyBegins ==
    ASSUME IInv, [Next]_vars, NEW u \in Storer, Begins(u)
    PROVE  \E quotes \in Offers : Verify(u, quotes)
<1>1. check \in [Storer -> Check \cup {NoPayment}] /\ ~ Running(u) /\ check'[u] # check[u]
    BY DEF IInv, TypeOK, Begins
<1>2. ASSUME NEW c \in Client, FromQuotes(c) \/ Pay(c) \/ PayReturns(c) \/ PayFails(c)
      PROVE  UNCHANGED check
    BY <1>2 DEF FromQuotes, Pay, PayReturns, PayFails
<1>3. ASSUME NEW t \in transactions, Mine(t) \/ Drop(t)
      PROVE  UNCHANGED check
    BY <1>3 DEF Mine, Drop
<1>4. ASSUME NEW s \in Storer, NEW quotes \in Offers, Verify(s, quotes)
      PROVE  s = u
    BY <1>1, <1>4 DEF Verify
<1>5. ASSUME NEW s \in Storer, Lookup(s) \/ LookupFails(s)
      PROVE  FALSE
  <2>1. s # u
    BY <1>1, <1>5 DEF Lookup, LookupFails
  <2>2. PICK k : check' = [check EXCEPT ![s] = k]
    BY <1>1, <1>5 DEF Lookup, LookupFails
  <2> QED  BY <1>1, <2>1, <2>2
<1>6. CASE UNCHANGED vars
    BY <1>1, <1>6 DEF vars
<1> QED  BY <1>1, <1>2, <1>3, <1>4, <1>5, <1>6 DEF Next

\* With PaymentSuffices: storers that judge one proof one after the other, while
\* other payments land, do not differ.
THEOREM AcceptanceIsShared == Spec => StorersFollow
<1>1. IInv /\ [Next]_vars =>
          [\A s, u \in Storer :
              /\ Status(s) = "accepted" /\ Begins(u)
              /\ SameQuotes(check[s].payment.quotes, check'[u].payment.quotes)
              => check'[u].status = "running" /\ check'[u].paidBefore]_vars
  <2> SUFFICES ASSUME IInv, [Next]_vars, NEW s \in Storer, NEW u \in Storer,
                      Status(s) = "accepted", Begins(u),
                      SameQuotes(check[s].payment.quotes, check'[u].payment.quotes)
               PROVE  check'[u].status = "running" /\ check'[u].paidBefore
    OBVIOUS
  <2>1. PICK quotes \in Offers : Verify(u, quotes)
    BY OnlyVerifyBegins
  <2>2. quotes \in Seq(Quote)
    BY OffersAssumption
  <2>3. PICK p \in from_quotes(quotes) :
            check' = [check EXCEPT ![u] =
               [payment    |-> p,
                left       |-> IF Refuses(p) THEN {} ELSE Tied(p),
                status     |-> IF Refuses(p) THEN "refused" ELSE "running",
                paidBefore |->
                    \/ \E r \in receipts : SameQuotes(r.quotes, quotes)
                    \/ \E i \in Tied(p) :
                           completedPayments[p.quotes[i]] >= p.amount]]
    BY <2>1 DEF Verify
  <2>4. check \in [Storer -> Check \cup {NoPayment}]
    BY DEF IInv, TypeOK
  <2>5. check'[u].payment = p
    BY <2>3, <2>4
  <2>6. ~ Refuses(p) /\ PaidAmong(p, Tied(p))
    BY <2>2, <2>5, AcceptedHasMoney
  <2>7. \E i \in Tied(p) : completedPayments[p.quotes[i]] >= p.amount
    BY <2>6 DEF PaidAmong
  <2> QED  BY <2>3, <2>4, <2>6, <2>7
<1> QED  BY <1>1, Invariance, PTL DEF Spec, StorersFollow

\* pay's Ok can be relied on: the call made exactly one payment, of three times
\* the median's price, and nothing it sent can land afterwards; a retry is never
\* owed, and what it would pay is a second payment (SingleNodePayment::pay).
THEOREM PaymentsAreExact == Spec => []PaidExactlyOnce
<1>1. IInv => PaidExactlyOnce
  <2> SUFFICES ASSUME IInv, NEW r \in receipts
               PROVE  \E p \in from_quotes(r.quotes) :
                          /\ \A t \in transactions : t.call # r.call
                          /\ {t \in mined : t.call = r.call} =
                                 IF p.amount = 0 THEN {}
                                 ELSE {[call |-> r.call, quote |-> paid_quote(p),
                                        amount |-> p.amount]}
    BY DEF PaidExactlyOnce
  <2>1. /\ \A t \in transactions : t.call # r.call
        /\ \E p \in from_quotes(r.quotes) :
               {t \in mined : t.call = r.call} = Batch(p, r.call)
    BY DEF IInv, ReceiptsPaid
  <2>2. r.quotes \in Seq(Quote)
    BY DEF IInv, TypeOK
  <2> QED  BY <2>1, <2>2, BatchIsMedian
<1> QED  BY <1>1, Invariance, PTL

=============================================================================
