SPECIFICATION Spec
CONSTANTS
    c1 = c1
    c2 = c2
    s1 = s1
    s2 = s2
    Client = {c1, c2}
    Storer = {s1}
    LastRelease = 3
    FirstVersioned = 1
    MinVersion <- FourMin
    CurrentVersion <- FourCurrent
    LegacyQuoter = {}
    QuotesNeeded = 1
    Staged = TRUE
CHECK_DEADLOCK FALSE
INVARIANTS
    NobodyIsStranded
