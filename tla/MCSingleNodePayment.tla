------------------------ MODULE MCSingleNodePayment ------------------------
(***************************************************************************)
(* Small instances of SingleNodePayment, with groups of three.              *)
(***************************************************************************)
EXTENDS SingleNodePayment, TLC

CONSTANTS c1, c2, s1, s2

Q(h, price) == [hash |-> h, price |-> price]

\* Two tie at the median, with a dearer and with a cheaper third, so the two
\* groups pay for the same quotes; either may come first.
Ties == {<<Q(1, 1), Q(2, 1), Q(3, 2)>>, <<Q(2, 1), Q(1, 1), Q(3, 2)>>,
         <<Q(1, 1), Q(4, 0), Q(2, 1)>>,
         <<Q(4, 0), Q(2, 1), Q(1, 1)>>}

\* A group of one price, a free median, a median whose triple does not fit
\* (the greatest amount is 5), and too few quotes.
Edges == {<<Q(1, 1), Q(2, 1), Q(5, 1)>>, <<Q(1, 1), Q(4, 0), Q(6, 0)>>,
          <<Q(3, 2), Q(7, 2), Q(1, 1)>>, <<Q(1, 1), Q(2, 1)>>}

TiesAndEdges == Ties \cup Edges

ClientsAlike == Permutations(Client)

=============================================================================
