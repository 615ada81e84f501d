CONSTANTS
    Calls = {c1, c2}
    Ids = {i1, i2}
    Contents = {m1, m2}
    Selections = {s1, s2}
    NoContent = NoContent
    NoPost = NoPost
    SettledLimit = 1
    MaxSends = 4
    MaxRebinds = 1
    Readers = {c1, c2}
    ReadLimit = 1
    ReturnedCap = 2
    MaxLog = 3
    MaxReplyRebinds = 1
    DbProcs = {c1, c2}
    Rows = {r1, r2, r3}
    Legacy = {r3}
    Retained = 1
    MaxStamp = 3
    MaxOps = 3
    MaxHarm = 2
    Nobody = Nobody
SPECIFICATION MCSpec
SYMMETRY Symmetry
CHECK_DEADLOCK FALSE
INVARIANT StoredIsAccountedFor
INVARIANT NoBlindDuplicate
INVARIANT NothingSkipped
INVARIANT ReadStaysDeliverable
INVARIANT NoLostCommit
INVARIANT CurrentIsComplete
