---------------------------- MODULE MedianQuote ----------------------------
(***************************************************************************)
(* What SingleNodePayment::from_quotes computes from the quotes collected   *)
(* for one chunk: sort them by price, and pay the median three times over.  *)
(* A quote is its hash, its price and nothing else; whose it is does not    *)
(* matter here.  CLOSE_GROUP_SIZE is 7 in the source and any positive       *)
(* number here.                                                             *)
(***************************************************************************)
EXTENDS Naturals, Sequences, FiniteSets

CONSTANTS
    CLOSE_GROUP_SIZE,
    Hash,             \* of quotes
    AmountMax         \* U256::MAX

ASSUME GroupAssumption == CLOSE_GROUP_SIZE \in Nat \ {0}
ASSUME AmountAssumption == AmountMax \in Nat

Amount == 0..AmountMax
Quote == [hash : Hash, price : Amount]

\* The lists of quotes that have the right length.
Group == [1..CLOSE_GROUP_SIZE -> Quote]

\* The median, counting from 1: MEDIAN_INDEX counts from 0.
MedianPosition == CLOSE_GROUP_SIZE \div 2 + 1

\* sort_by_key is stable: quotes of one price keep their order.
Before(list, i, j) ==
    \/ list[i].price < list[j].price
    \/ list[i].price = list[j].price /\ i < j

Position(list, i) == Cardinality({j \in DOMAIN list : Before(list, j, i)}) + 1

\* A plausible slip in SortedByPrice: the caller is trusted to have sorted.
SortedAlready(list) == list

SortedByPrice(list) ==
    [k \in DOMAIN list |-> list[CHOOSE i \in DOMAIN list : Position(list, i) = k]]

\* A plausible slip in Tripled: the product is not checked for overflow.
TripledUnchecked(price) == {3 * price}

\* checked_mul: nothing on overflow.
Tripled(price) == {3 * price} \cap Amount

\* from_quotes, as the set of payments it returns: none if it returns Err.
\* A payment is its sorted quotes and the amount of the median; the amount of
\* every other quote is zero.
from_quotes(list) ==
    IF Len(list) # CLOSE_GROUP_SIZE THEN {}
    ELSE LET sorted == SortedByPrice(list)
         IN  {[quotes |-> sorted, amount |-> amount] :
                 amount \in Tripled(sorted[MedianPosition].price)}

paid_quote(payment) == payment.quotes[MedianPosition]

\* A plausible slip in AmountAt: every quote is paid the enhanced price.
AmountAtAll(payment, k) == payment.amount

AmountAt(payment, k) == IF k = MedianPosition THEN payment.amount ELSE 0

\* A plausible slip in Tied: only the verifier's own median is looked up.
TiedMedianOnly(payment) == {MedianPosition}

\* The quotes verify looks up: those that tie with the median.
Tied(payment) ==
    {k \in DOMAIN payment.quotes :
        payment.quotes[k].price = paid_quote(payment).price}

\* Two lists hold the same quotes, in any two orders.
SameQuotes(list, other) ==
    /\ DOMAIN list = DOMAIN other
    /\ \E f \in [DOMAIN list -> DOMAIN list] :
           /\ \A k \in DOMAIN list : \E i \in DOMAIN list : f[i] = k
           /\ other = [i \in DOMAIN list |-> list[f[i]]]

=============================================================================
