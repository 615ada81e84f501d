CONSTANTS
    Procs = {p1, p2}
    Posted = {"broadcast", "own", "direct"}
    InboxCap = 1
    RecentCap = 1
    MaxLog = 2
    MaxFaults = 1
    Readers = {p1, p2}
    Nobody = Nobody
    PageLimit = 1
    DigestThreshold = 1
    FetchCap = 2
    LockTries = 2
    Resets = 1
    MaxEntries = 3
    MaxReads = 3
    MaxMishaps = 2
SPECIFICATION MCSpec
SYMMETRY Symmetry
PROPERTY NothingMissed
INVARIANT UnreadNotPassed
PROPERTY NoLostAdvance
CHECK_DEADLOCK FALSE
