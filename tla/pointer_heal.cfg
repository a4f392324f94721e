SPECIFICATION FairSpec
CONSTANTS
    alice = alice
    bob = bob
    d1 = d1
    d2 = d2
    d3 = d3
    n1 = n1
    n2 = n2
    NoPointer = NoPointer
    LegacyNode = {n2}
    Owner = {alice}
    Device = {d1, d2}
    KeyOf <- TwoDevices
    Node = {n1, n2}
    Name <- PointerName
    PointerAddress <- AliceAddress
    Target <- ChunkAndPointer
    Recipient = {20}
    Nonce = {1}
    FinalCounter = 2
    RawSigner = {}
    Careless = {}
    Forgery = {}
    WireBound = 2
CHECK_DEADLOCK FALSE
PROPERTIES
    UpdatesReplace
    Heals
