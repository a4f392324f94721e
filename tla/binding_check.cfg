SPECIFICATION Spec
CONSTANTS
    k1 = k1
    k2 = k2
    r1 = r1
    r2 = r2
    p1 = p1
    p2 = p2
    w1 = w1
    w2 = w2
    PRICE_BASELINE_WEI = 7
    PRICE_COEFFICIENT_WEI = 12
    PRICING_DIVISOR = 2
    AmountMax = 400
    RecordsMax = 5
    Key = {k1, k2}
    PeerId <- Ids
    Root = {r1, r2}
    RewardsAddress = {w1}
    KeyCount = {0, 1, 2}
    MAX_COMMITMENT_KEY_COUNT = 2
    Honest = {k1}
    Client = {c1}
    Careful = {}
    LegacyBundler = {c1}
    Storer = {s1}
    Leaves <- TwoLeaves
    Wallet <- OneWallet
    OtherPrice = {3, 400}
    Subject = {x1}
    Forgeries <- Forged
    NoCommitment = NoCommitment
    QuotesNeeded = 1
    CommitmentBound = 2
CHECK_DEADLOCK FALSE
INVARIANTS
    AcceptsOnlyWhatIsBound
    CountsAreTheGreatestPaid
    PricesTellTheCommittedCount
