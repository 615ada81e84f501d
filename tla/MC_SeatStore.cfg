CONSTANTS
    p1 = p1
    p2 = p2
    p3 = p3
    None = None
    Procs = {p1, p2, p3}
    MaxTries = 2
    MaxTxns = 1
    MaxStarts = 2
    MaxFaults = 1
SPECIFICATION Spec
PROPERTY Refines
PROPERTY Returns
CHECK_DEADLOCK FALSE
