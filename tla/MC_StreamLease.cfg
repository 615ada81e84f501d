CONSTANTS
    Procs = {p1, p2}
    Inodes = {n1, n2, n3}
    None = None
    Beats = 1
    MaxFaults = 1
SPECIFICATION FairSpec
PROPERTY LiveLeaseNotRemoved
PROPERTY TwoOwnersHeal
PROPERTY DeadOwnerReplaced
CHECK_DEADLOCK FALSE
