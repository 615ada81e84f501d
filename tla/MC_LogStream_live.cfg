CONSTANTS
    Procs = {p1}
    Posted = {"broadcast", "own", "ack", "other"}
    InboxCap = 1
    RecentCap = 1
    MaxLog = 2
    MaxFaults = 2
    Readers = {p1}
    Nobody = Nobody
    PageLimit = 1
    DigestThreshold = 1
    FetchCap = 2
    LockTries = 2
    Resets = 1
    MaxEntries = 3
    MaxReads = 3
    MaxMishaps = 2
SPECIFICATION LiveSpec
INVARIANT DivergenceIsReal
PROPERTY AnnouncedArrives
CHECK_DEADLOCK FALSE
