SPECIFICATION Spec
CONSTANTS
    Client = {c1}
    Node = {n1}
    Release = {1, 2, 4}
    RequestId = {1, 2}
    Asked <- AskedOfEachAge
    Refused = {"ChunkTooLarge", "ClientUpdateRequired"}
    ContentSize = {4, 5}
    ProofSize = {1}
    Envelope = 1
    MAX_CHUNK_SIZE = 4
    MAX_WIRE_MESSAGE_SIZE = 6
CHECK_DEADLOCK FALSE
INVARIANTS
    NothingIsMisread
    RepliesAreUnderstood
    DroppedForAReason
PROPERTIES
    KeepsTypes
