SPECIFICATION Spec
CONSTANTS
    alice = alice
    bob = bob
    d1 = d1
    d2 = d2
    d3 = d3
    n1 = n1
    n2 = n2
    NoPointer = NoPointer
    LegacyNode = {}
    Owner = {alice}
    Device = {d1}
    KeyOf <- OneDevice
    Node = {n1, n2}
    Name <- PointerName
    PointerAddress <- AliceAddress
    Target <- ChunkAndPointer
    Recipient = {20}
    Nonce = {1}
    FinalCounter = 1
    RawSigner = {d1}
    Careless = {}
    Forgery = {}
    WireBound = 3
CHECK_DEADLOCK FALSE
SYMMETRY NodeSymmetry
INVARIANT
    Convergent
