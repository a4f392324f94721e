SPECIFICATION Spec
CONSTANTS
    c1 = c1
    c2 = c2
    s1 = s1
    s2 = s2
    Client = {c1}
    Storer = {s1, s2}
    LastRelease = 3
    FirstVersioned = 1
    MinVersion <- AbruptMin
    CurrentVersion <- AbruptCurrent
    LegacyQuoter = {s1}
    QuotesNeeded = 2
    Staged = FALSE
CHECK_DEADLOCK FALSE
INVARIANTS
    QuotesAreKept
    OnlyTheOutdatedAreTold
