------------------------- MODULE MedianQuoteProofs -------------------------
(***************************************************************************)
(* The median price does not depend on the order the quotes came in, for    *)
(* every group size and whatever ties.  The argument counts: the median is  *)
(* the one price with fewer than MedianPosition quotes below it, and at     *)
(* least MedianPosition quotes not above it.                                *)
(***************************************************************************)
EXTENDS MedianQuote, FiniteSetTheorems, TLAPS

N == CLOSE_GROUP_SIZE

LEMMA GroupFields ==
    ASSUME NEW list \in Group
    PROVE  /\ N \in Nat \ {0}
           /\ DOMAIN list = 1..N
           /\ \A i \in 1..N : list[i] \in Quote /\ list[i].price \in Nat
           /\ MedianPosition \in 1..N
           /\ IsFiniteSet(1..N) /\ Cardinality(1..N) = N
<1>1. N \in Nat \ {0} /\ AmountMax \in Nat
    BY GroupAssumption, AmountAssumption DEF N
<1>2. DOMAIN list = 1..N /\ \A i \in 1..N : list[i] \in Quote
    BY DEF Group, N
<1>3. \A i \in 1..N : list[i].price \in Nat
    BY <1>1, <1>2 DEF Quote, Amount
<1>4. MedianPosition \in 1..N
    BY <1>1 DEF MedianPosition, N
<1>5. IsFiniteSet(1..N) /\ Cardinality(1..N) = N
    BY <1>1, FS_Interval
<1> QED  BY <1>1, <1>2, <1>3, <1>4, <1>5

\* Every set of positions is finite and has a size.
LEMMA Positions ==
    ASSUME NEW list \in Group, NEW S, S \subseteq 1..N
    PROVE  IsFiniteSet(S) /\ Cardinality(S) \in Nat /\ Cardinality(S) <= N
<1>1. IsFiniteSet(1..N) /\ Cardinality(1..N) = N
    BY GroupFields
<1>2. IsFiniteSet(S) /\ Cardinality(S) <= N
    BY <1>1, FS_Subset, ZenonT(40)
<1>3. Cardinality(S) \in Nat
    BY <1>2, FS_CardinalityType
<1> QED  BY <1>2, <1>3

-----------------------------------------------------------------------------
(* Sorting *)

LEMMA PositionType ==
    ASSUME NEW list \in Group, NEW i \in 1..N
    PROVE  Position(list, i) \in 1..N
<1> DEFINE S == {j \in 1..N : Before(list, j, i)}
<1>1. Position(list, i) = Cardinality(S) + 1
    BY GroupFields DEF Position
<1>2. S \subseteq (1..N) \ {i}
    BY GroupFields DEF Before
<1>a. IsFiniteSet(1..N) /\ Cardinality(1..N) = N
    BY GroupFields
<1>3. /\ IsFiniteSet((1..N) \ {i})
      /\ Cardinality((1..N) \ {i}) = N - 1
    BY <1>a, FS_RemoveElement, Zenon
<1>4. Cardinality(S) \in Nat /\ Cardinality(S) <= N - 1
    BY <1>2, <1>3, FS_Subset, FS_CardinalityType
<1> QED  BY <1>1, <1>4, GroupFields

LEMMA PositionsDiffer ==
    ASSUME NEW list \in Group, NEW i \in 1..N, NEW j \in 1..N,
           Before(list, i, j)
    PROVE  Position(list, i) < Position(list, j)
<1> DEFINE S == {k \in 1..N : Before(list, k, i)}
           T == {k \in 1..N : Before(list, k, j)}
<1>1. Position(list, i) = Cardinality(S) + 1 /\ Position(list, j) = Cardinality(T) + 1
    BY GroupFields DEF Position
<1>2. S \subseteq T \ {i} /\ i \in T
    BY GroupFields, SMTT(40) DEF Before
<1>3. IsFiniteSet(T) /\ Cardinality(T) \in Nat
    BY Positions
<1>4. IsFiniteSet(T \ {i}) /\ Cardinality(T \ {i}) = Cardinality(T) - 1
    BY <1>2, <1>3, FS_RemoveElement
<1>5. Cardinality(S) <= Cardinality(T) - 1 /\ Cardinality(S) \in Nat
    BY <1>2, <1>4, FS_Subset, Positions
<1> QED  BY <1>1, <1>3, <1>5

\* Some quote takes every position.
LEMMA PositionTaken ==
    ASSUME NEW list \in Group, NEW k \in 1..N
    PROVE  \E i \in 1..N : Position(list, i) = k
<1> DEFINE f == [i \in 1..N |-> Position(list, i)]
<1>1. f \in [1..N -> 1..N]
    BY PositionType
<1>2. ASSUME NEW i \in 1..N, NEW j \in 1..N, i # j
      PROVE  f[i] # f[j]
  <2>1. Before(list, i, j) \/ Before(list, j, i)
    BY <1>2, GroupFields DEF Before
  <2>2. Position(list, i) \in 1..N /\ Position(list, j) \in 1..N
    BY PositionType
  <2> QED  BY <2>1, <2>2, PositionsDiffer
<1>3. f \in Injection(1..N, 1..N)
    BY <1>1, <1>2 DEF Injection, IsInjective
<1>4. f \in Surjection(1..N, 1..N)
    BY <1>3, FS_Injection, GroupFields
<1> QED  BY <1>4 DEF Surjection

\* SortedByPrice puts the same quotes in another order.
LEMMA SortedIsSame ==
    ASSUME NEW list \in Group
    PROVE  SortedByPrice(list) \in Group /\ SameQuotes(list, SortedByPrice(list))
<1> DEFINE at == [k \in DOMAIN list |-> CHOOSE i \in DOMAIN list : Position(list, i) = k]
           sorted == [k \in DOMAIN list |-> list[at[k]]]
<1>1. DOMAIN list = 1..N
    BY GroupFields
<1>2. \A k \in 1..N : at[k] \in 1..N /\ Position(list, at[k]) = k
    BY <1>1, PositionTaken
<1>3. SortedByPrice(list) = sorted
    BY DEF SortedByPrice
<1>4. sorted \in Group
    BY <1>1, <1>2, GroupFields DEF Group, N
<1>5. \A i \in 1..N : at[Position(list, i)] = i
  <2> SUFFICES ASSUME NEW i \in 1..N
               PROVE  at[Position(list, i)] = i
      OBVIOUS
  <2>1. PICK k \in 1..N : k = Position(list, i)
    BY PositionType
  <2>2. at[k] \in 1..N /\ Position(list, at[k]) = Position(list, i)
    BY <1>2, <2>1
  <2>3. at[k] # i => Before(list, at[k], i) \/ Before(list, i, at[k])
    BY <2>2, GroupFields DEF Before
  <2>4. Position(list, i) \in Nat
    BY PositionType
  <2> QED  BY <2>1, <2>2, <2>3, <2>4, PositionsDiffer
<1>6. at \in [DOMAIN list -> DOMAIN list]
    BY <1>1, <1>2
<1>7. \A i \in DOMAIN list : \E k \in DOMAIN list : at[k] = i
    BY <1>1, <1>5, PositionType
<1>8. SameQuotes(list, sorted)
    BY <1>6, <1>7 DEF SameQuotes
<1> QED  BY <1>3, <1>4, <1>8

-----------------------------------------------------------------------------
(* Counting *)

Below(list, price) == {i \in 1..N : list[i].price < price}
UpTo(list, price) == {i \in 1..N : list[i].price <= price}

IsMedian(list, price) ==
    /\ Cardinality(Below(list, price)) < MedianPosition
    /\ Cardinality(UpTo(list, price)) >= MedianPosition

LEMMA SameMembers ==
    ASSUME NEW list \in Group, NEW other \in Group, SameQuotes(list, other),
           NEW k \in 1..N
    PROVE  \E i \in 1..N : other[i] = list[k]
<1>1. DOMAIN list = 1..N
    BY GroupFields
<1>2. PICK f \in [DOMAIN list -> DOMAIN list] :
          /\ \A j \in DOMAIN list : \E i \in DOMAIN list : f[i] = j
          /\ other = [i \in DOMAIN list |-> list[f[i]]]
    BY DEF SameQuotes
<1>3. PICK i \in 1..N : f[i] = k
    BY <1>1, <1>2
<1> QED  BY <1>1, <1>2, <1>3

\* Two orders of the same quotes have as many quotes of any kind.
LEMMA SameCounts ==
    ASSUME NEW list \in Group, NEW other \in Group, SameQuotes(list, other),
           NEW kind
    PROVE  Cardinality({i \in 1..N : list[i] \in kind})
           = Cardinality({i \in 1..N : other[i] \in kind})
<1> DEFINE S == {i \in 1..N : list[i] \in kind}
           T == {i \in 1..N : other[i] \in kind}
<1>1. DOMAIN list = 1..N
    BY GroupFields
<1>2. PICK f \in [DOMAIN list -> DOMAIN list] :
          /\ \A k \in DOMAIN list : \E i \in DOMAIN list : f[i] = k
          /\ other = [i \in DOMAIN list |-> list[f[i]]]
    BY DEF SameQuotes
<1>3. f \in Surjection(1..N, 1..N)
    BY <1>1, <1>2 DEF Surjection
<1>4. f \in Injection(1..N, 1..N)
    BY <1>3, FS_Surjection, GroupFields
<1>5. \A i, j \in 1..N : f[i] = f[j] => i = j
    BY <1>4 DEF Injection, IsInjective
<1> DEFINE g == [i \in T |-> f[i]]
<1>6. g \in [T -> S]
    BY <1>1, <1>2
<1>7. g \in Injection(T, S)
    BY <1>5, <1>6 DEF Injection, IsInjective
<1>8. \A k \in S : \E i \in T : g[i] = k
    BY <1>1, <1>2
<1>9. g \in Surjection(T, S)
    BY <1>6, <1>8 DEF Surjection
<1>10. IsFiniteSet(T)
    BY Positions
<1> QED  BY <1>7, <1>9, <1>10, FS_Surjection

LEMMA SameMedians ==
    ASSUME NEW list \in Group, NEW other \in Group, SameQuotes(list, other),
           NEW price \in Nat, IsMedian(list, price)
    PROVE  IsMedian(other, price)
<1> DEFINE cheaper == {q \in Quote : q.price < price}
           notDearer == {q \in Quote : q.price <= price}
<1>1. /\ Below(list, price) = {i \in 1..N : list[i] \in cheaper}
      /\ Below(other, price) = {i \in 1..N : other[i] \in cheaper}
      /\ UpTo(list, price) = {i \in 1..N : list[i] \in notDearer}
      /\ UpTo(other, price) = {i \in 1..N : other[i] \in notDearer}
    BY GroupFields DEF Below, UpTo
<1> HIDE DEF cheaper, notDearer
<1>2. /\ Cardinality(Below(list, price)) = Cardinality(Below(other, price))
      /\ Cardinality(UpTo(list, price)) = Cardinality(UpTo(other, price))
  <2>1. \A kind : Cardinality({i \in 1..N : list[i] \in kind})
                  = Cardinality({i \in 1..N : other[i] \in kind})
    BY SameCounts
  <2> QED  BY <1>1, <2>1
<1> QED  BY <1>2 DEF IsMedian

LEMMA MedianIsUnique ==
    ASSUME NEW list \in Group, NEW p \in Nat, NEW q \in Nat,
           IsMedian(list, p), IsMedian(list, q)
    PROVE  ~ p < q
<1> SUFFICES ASSUME p < q
             PROVE  FALSE
    OBVIOUS
<1>1. UpTo(list, p) \subseteq Below(list, q) /\ Below(list, q) \subseteq 1..N
    BY GroupFields DEF UpTo, Below
<1>2. IsFiniteSet(Below(list, q)) /\ Cardinality(Below(list, q)) \in Nat
    BY <1>1, Positions
<1>3. /\ Cardinality(UpTo(list, p)) <= Cardinality(Below(list, q))
      /\ Cardinality(UpTo(list, p)) \in Nat
    BY <1>1, <1>2, FS_Subset, FS_CardinalityType
<1> QED  BY <1>2, <1>3, GroupFields DEF IsMedian

\* The price in the middle of the sorted list is the median of the list.
LEMMA SortedMedian ==
    ASSUME NEW list \in Group
    PROVE  /\ SortedByPrice(list)[MedianPosition].price \in Nat
           /\ IsMedian(list, SortedByPrice(list)[MedianPosition].price)
<1>1. PICK m \in 1..N : m = CHOOSE i \in 1..N : Position(list, i) = MedianPosition
    BY PositionTaken, GroupFields
<1>2. Position(list, m) = MedianPosition
    BY <1>1, PositionTaken, GroupFields
<1>3. SortedByPrice(list)[MedianPosition] = list[m]
    BY <1>1, GroupFields DEF SortedByPrice
<1> DEFINE S == {j \in 1..N : Before(list, j, m)}
<1>4. Cardinality(S) = MedianPosition - 1 /\ IsFiniteSet(S)
  <2>1. Cardinality(S) \in Nat /\ IsFiniteSet(S)
    BY Positions
  <2>2. Position(list, m) = Cardinality(S) + 1
    BY GroupFields DEF Position
  <2> QED  BY <1>2, <2>1, <2>2
<1>5. Below(list, list[m].price) \subseteq S
    BY DEF Below, Before
<1>6. Cardinality(Below(list, list[m].price)) <= MedianPosition - 1
    BY <1>4, <1>5, FS_Subset
<1>7. S \cup {m} \subseteq UpTo(list, list[m].price)
    BY GroupFields DEF UpTo, Before
<1>8. m \notin S
    BY GroupFields DEF Before
<1>9. Cardinality(S \cup {m}) = MedianPosition
  <2>1. Cardinality(S \cup {m}) = Cardinality(S) + 1
    BY <1>4, <1>8, FS_AddElement
  <2> QED  BY <2>1, <1>4, GroupFields
<1>10. Cardinality(UpTo(list, list[m].price)) >= MedianPosition
  <2>1. IsFiniteSet(UpTo(list, list[m].price))
    BY Positions DEF UpTo
  <2>2. Cardinality(S \cup {m}) <= Cardinality(UpTo(list, list[m].price))
    BY <1>7, <2>1, FS_Subset
  <2> QED  BY <2>2, <1>9
<1>11. /\ Cardinality(Below(list, list[m].price)) \in Nat
       /\ MedianPosition \in Nat /\ list[m].price \in Nat
    BY Positions, GroupFields DEF Below
<1> QED  BY <1>3, <1>6, <1>10, <1>11 DEF IsMedian

\* Two parties that hold the same quotes, in any two orders, find the same
\* median price (SingleNodePayment::from_quotes on the client and on the storer).
THEOREM MedianIgnoresOrder ==
    ASSUME NEW list \in Group, NEW other \in Group, SameQuotes(list, other)
    PROVE  SortedByPrice(list)[MedianPosition].price
           = SortedByPrice(other)[MedianPosition].price
<1>1. PICK p \in Nat : p = SortedByPrice(list)[MedianPosition].price
    BY SortedMedian
<1>2. PICK q \in Nat : q = SortedByPrice(other)[MedianPosition].price
    BY SortedMedian
<1>3. IsMedian(other, p) /\ IsMedian(other, q)
    BY <1>1, <1>2, SortedMedian, SameMedians
<1>4. ~ p < q /\ ~ q < p
    BY <1>3, MedianIsUnique
<1> QED  BY <1>1, <1>2, <1>4

\* Whether from_quotes succeeds, and what it asks for, does not depend on the
\* order either: a storer rebuilds a client's payment or fails where it failed.
THEOREM FromQuotesIgnoresOrder ==
    ASSUME NEW list \in Group, NEW other \in Group, SameQuotes(list, other)
    PROVE  {p.amount : p \in from_quotes(list)} = {p.amount : p \in from_quotes(other)}
<1>1. Len(list) = CLOSE_GROUP_SIZE /\ Len(other) = CLOSE_GROUP_SIZE
    BY GroupAssumption DEF Group
<1>2. ASSUME NEW l \in Group, Len(l) = CLOSE_GROUP_SIZE
      PROVE  {p.amount : p \in from_quotes(l)}
             = Tripled(SortedByPrice(l)[MedianPosition].price)
  <2> DEFINE sorted == SortedByPrice(l)
             due == Tripled(sorted[MedianPosition].price)
  <2>1. from_quotes(l) = {[quotes |-> sorted, amount |-> amount] : amount \in due}
    BY <1>2 DEF from_quotes
  <2> HIDE DEF due, sorted
  <2>2. \A amount : [quotes |-> sorted, amount |-> amount].amount = amount
    OBVIOUS
  <2>3. {p.amount : p \in from_quotes(l)} = due
    BY <2>1, <2>2
  <2> QED  BY <2>3 DEF due, sorted
<1>3. SortedByPrice(list)[MedianPosition].price
      = SortedByPrice(other)[MedianPosition].price
    BY MedianIgnoresOrder
<1> QED  BY <1>1, <1>2, <1>3

\* sort_by_key: a rearrangement of the quotes, cheapest first, where quotes of
\* one price keep the order they came in.
THEOREM SortingSorts ==
    ASSUME NEW list \in Group
    PROVE  /\ SortedByPrice(list) \in Group /\ SameQuotes(list, SortedByPrice(list))
           /\ \A k, l \in 1..N : k < l =>
                  SortedByPrice(list)[k].price <= SortedByPrice(list)[l].price
           /\ \A i, j \in 1..N : i < j /\ list[i].price = list[j].price =>
                  Position(list, i) < Position(list, j)
<1>1. \A k \in 1..N : \E i \in 1..N :
          Position(list, i) = k /\ SortedByPrice(list)[k] = list[i]
  <2> SUFFICES ASSUME NEW k \in 1..N
               PROVE  \E i \in 1..N :
                          Position(list, i) = k /\ SortedByPrice(list)[k] = list[i]
      OBVIOUS
  <2>1. PICK i \in 1..N : i = CHOOSE j \in 1..N : Position(list, j) = k
    BY PositionTaken
  <2>2. Position(list, i) = k
    BY <2>1, PositionTaken
  <2>3. SortedByPrice(list)[k] = list[i]
    BY <2>1, GroupFields DEF SortedByPrice
  <2> QED  BY <2>2, <2>3
<1>2. ASSUME NEW k \in 1..N, NEW l \in 1..N, k < l
      PROVE  SortedByPrice(list)[k].price <= SortedByPrice(list)[l].price
  <2>1. PICK i \in 1..N : Position(list, i) = k /\ SortedByPrice(list)[k] = list[i]
    BY <1>1
  <2>2. PICK j \in 1..N : Position(list, j) = l /\ SortedByPrice(list)[l] = list[j]
    BY <1>1
  <2>3. ~ Before(list, j, i)
    BY <1>2, <2>1, <2>2, PositionsDiffer, GroupFields
  <2>4. list[i].price \in Nat /\ list[j].price \in Nat
    BY GroupFields
  <2> QED  BY <2>1, <2>2, <2>3, <2>4 DEF Before
<1>3. ASSUME NEW i \in 1..N, NEW j \in 1..N, i < j, list[i].price = list[j].price
      PROVE  Position(list, i) < Position(list, j)
    BY <1>3, PositionsDiffer DEF Before
<1> QED  BY <1>2, <1>3, SortedIsSame

\* Why the median is paid: more than half of the quotes bound it.  Whatever the
\* others ask, it is no dearer than the dearest and no cheaper than the
\* cheapest of them.
THEOREM AMajorityBoundsTheMedian ==
    ASSUME NEW list \in Group, NEW most, most \subseteq 1..N,
           Cardinality(most) >= MedianPosition
    PROVE  LET paid == SortedByPrice(list)[MedianPosition].price
           IN  /\ \E i \in most : paid <= list[i].price
               /\ \E i \in most : list[i].price <= paid
<1>1. PICK paid \in Nat : paid = SortedByPrice(list)[MedianPosition].price
                          /\ IsMedian(list, paid)
    BY SortedMedian
<1>2. /\ N \in Nat \ {0} /\ MedianPosition \in 1..N
      /\ N < 2 * MedianPosition
      /\ \A i \in 1..N : list[i].price \in Nat
    BY GroupFields DEF MedianPosition, N
<1>3. /\ IsFiniteSet(most) /\ Cardinality(most) \in Nat
      /\ IsFiniteSet(Below(list, paid)) /\ Cardinality(Below(list, paid)) \in Nat
      /\ IsFiniteSet(UpTo(list, paid)) /\ Cardinality(UpTo(list, paid)) \in Nat
    BY Positions DEF Below, UpTo
<1>4. ASSUME \A i \in most : list[i].price < paid
      PROVE  FALSE
  <2>1. most \subseteq Below(list, paid)
    BY <1>4 DEF Below
  <2>2. Cardinality(most) <= Cardinality(Below(list, paid))
    BY <1>3, <2>1, FS_Subset
  <2> QED  BY <1>1, <1>2, <1>3, <2>2 DEF IsMedian
<1>5. ASSUME \A i \in most : paid < list[i].price
      PROVE  FALSE
  <2> DEFINE rest == UpTo(list, paid)
  <2>0. \A i \in 1..N : ~ (paid < list[i].price /\ list[i].price <= paid)
    BY <1>1, <1>2
  <2>1. most \cap rest = {} /\ most \cup rest \subseteq 1..N
    <3>1. \A i \in rest : i \in 1..N /\ list[i].price <= paid
      BY DEF UpTo
    <3> HIDE DEF rest
    <3> QED  BY <1>5, <2>0, <3>1
  <2>2. /\ Cardinality(most \cup rest)
           = Cardinality(most) + Cardinality(rest) - Cardinality(most \cap rest)
        /\ IsFiniteSet(most \cup rest)
    BY <1>3, FS_Union
  <2>3. Cardinality(most \cap rest) = 0
    BY <2>1, FS_EmptySet
  <2>4. Cardinality(most \cup rest) <= N
    BY <2>1, Positions
  <2> HIDE DEF rest
  <2>5. Cardinality(rest) \in Nat /\ Cardinality(rest) >= MedianPosition
    BY <1>1, <1>3 DEF rest, IsMedian
  <2> QED  BY <1>2, <1>3, <2>2, <2>3, <2>4, <2>5
<1>6. \E i \in most : paid <= list[i].price
    BY <1>1, <1>2, <1>4
<1>7. \E i \in most : list[i].price <= paid
    BY <1>1, <1>2, <1>5
<1> QED  BY <1>1, <1>6, <1>7

=============================================================================
