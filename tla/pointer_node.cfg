SPECIFICATION Spec
CONSTANTS
    alice = alice
    bob = bob
    d1 = d1
    d2 = d2
    d3 = d3
    n1 = n1
    n2 = n2
    NoPointer = NoPointer
    LegacyNode = {}
    Owner = {alice, bob}
    Device = {d1, d3}
    KeyOf <- TwoOwners
    Node = {n1}
    Name <- PointerName
    PointerAddress <- BothAddresses
    Target <- ChunkAndPointer
    Recipient = {20}
    Nonce = {1, 2}
    FinalCounter = 2
    RawSigner = {d3}
    Careless = {d1}
    Forgery <- SomeForgeries
    WireBound = 3
CHECK_DEADLOCK FALSE
INVARIANTS
    TypeOK
    HeldAuthentic
    RepliesStayTrue
    SubmissionsStaySettled
    FinalIsForever
PROPERTIES
    NeverStoredTwice
    ImplementsRegister
