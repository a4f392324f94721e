SPECIFICATION Spec
CONSTANTS
    c1 = c1
    c2 = c2
    s1 = s1
    s2 = s2
    NoPayment = NoPayment
    CLOSE_GROUP_SIZE = 3
    Hash = {1, 2, 3, 4, 5, 6, 7}
    AmountMax = 5
    Client = {c1, c2}
    Storer = {s1}
    Offers <- TiesAndEdges
    AttemptBound = 2
SYMMETRY ClientsAlike
CHECK_DEADLOCK FALSE
INVARIANTS
    TypeOK
    AcceptedWasPaid
    PaidIsNeverUnderpaid
    SidesAgree
    OnePaymentPerCall
    PaidExactlyOnce
PROPERTIES
    StorersFollow
