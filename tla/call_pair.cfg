SPECIFICATION FairSpec
CONSTANTS
    c1 = c1
    c2 = c2
    p1 = p1
    p2 = p2
    NoCall = NoCall
    NoPeer = NoPeer
    Call = {c1, c2}
    Peer = {p1, p2}
    RequestId = {1, 2, 3}
    TargetOf <- SameTarget
    IdOf <- TwoIds
    Timeout <- TwoTimeouts
    LongestTimeout = 3
    Foreign <- NearMisses
    Capacity = 1
CHECK_DEADLOCK FALSE
INVARIANTS
    TypeOK
    AnswerIsMine
    NoAnswerDropped
PROPERTIES
    KeepsContract
    CallsEnd
