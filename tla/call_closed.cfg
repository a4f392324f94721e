SPECIFICATION Spec
CONSTANTS
    c1 = c1
    c2 = c2
    p1 = p1
    p2 = p2
    NoCall = NoCall
    NoPeer = NoPeer
    Call = {c1}
    Peer = {p1, p2}
    RequestId = {1, 2, 3}
    TargetOf <- OneTarget
    IdOf <- OneId
    Timeout <- OneTimeout
    LongestTimeout = 5
    Foreign <- NearMisses
    Capacity = 2
CHECK_DEADLOCK FALSE
INVARIANT
    TimeoutMeansDeadline
