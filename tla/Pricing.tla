------------------------------ MODULE Pricing ------------------------------
(***************************************************************************)
(* The price of storage (src/src/payment/pricing.rs): calculate_price, of a *)
(* node's record count, and derive_records_stored_from_price, which a       *)
(* storer applies to prices it has not verified yet.  The source has        *)
(* BASELINE = 3906250000000000, K = 35156250000000000 and D = 6000, 256-bit *)
(* amounts and 64-bit counts.                                               *)
(***************************************************************************)
EXTENDS Naturals

CONSTANTS
    PRICE_BASELINE_WEI,
    PRICE_COEFFICIENT_WEI,
    PRICING_DIVISOR,
    AmountMax,        \* U256::MAX
    RecordsMax        \* u64::MAX

DIVISOR_SQUARED == PRICING_DIVISOR * PRICING_DIVISOR

PRICE_PER_RECORD_SQUARED_WEI == PRICE_COEFFICIENT_WEI \div DIVISOR_SQUARED

\* The coefficient is a multiple of the squared divisor, as the source's is:
\* 976562500 times.
ASSUME CoefficientAssumption ==
    /\ PRICE_BASELINE_WEI \in Nat /\ PRICE_COEFFICIENT_WEI \in Nat \ {0}
    /\ PRICING_DIVISOR \in Nat \ {0}
    /\ PRICE_PER_RECORD_SQUARED_WEI \in Nat \ {0}
    /\ PRICE_COEFFICIENT_WEI = PRICE_PER_RECORD_SQUARED_WEI * DIVISOR_SQUARED

\* No count that fits its type reaches the greatest amount.
ASSUME WidthAssumption ==
    /\ AmountMax \in Nat /\ RecordsMax \in Nat \ {0}
    /\ RecordsMax * RecordsMax * PRICE_COEFFICIENT_WEI + PRICE_BASELINE_WEI
       <= AmountMax

Records == 0..RecordsMax

Amount == 0..AmountMax

Saturated(amount) == IF amount > AmountMax THEN AmountMax ELSE amount

\* A plausible slip in calculate_price: n / D is taken first, as the formula
\* in the module's documentation reads, and the price climbs in stairs.
calculate_price_in_stairs(n) ==
    PRICE_BASELINE_WEI
    + (n \div PRICING_DIVISOR) * (n \div PRICING_DIVISOR) * PRICE_COEFFICIENT_WEI

calculate_price(n) ==
    Saturated(PRICE_BASELINE_WEI
              + Saturated(Saturated(n * n) * PRICE_COEFFICIENT_WEI)
                \div DIVISOR_SQUARED)

\* root(2): the integer square root.
SquareRoot(x) == CHOOSE r \in 0..x : r * r <= x /\ x < (r + 1) * (r + 1)

\* A plausible slip in derive_records_stored_from_price: the excess over the
\* baseline wraps below it.
derive_records_below_baseline(price) ==
    LET excess == IF price >= PRICE_BASELINE_WEI
                  THEN price - PRICE_BASELINE_WEI
                  ELSE AmountMax + 1 + price - PRICE_BASELINE_WEI
        root == SquareRoot(excess \div PRICE_PER_RECORD_SQUARED_WEI)
    IN  IF root > RecordsMax THEN RecordsMax ELSE root

derive_records_stored_from_price(price) ==
    IF price <= PRICE_BASELINE_WEI THEN 0
    ELSE LET excess == price - PRICE_BASELINE_WEI
             root == SquareRoot(excess \div PRICE_PER_RECORD_SQUARED_WEI)
         IN  IF root > RecordsMax THEN RecordsMax ELSE root

=============================================================================
