SPECIFICATION MonitorSpec
CONSTANTS
    m1 = m1
    m2 = m2
    Monitors = {m1, m2}
    None = None
    Old = Old
    MaxLines = 2
    MaxTime = 1
    Skew = 0
    ReplayCap = 2
    DedupCap = 2
    Keep = 1
    MaxAttempts = 2
    MaxMonitorFaults = 2
SYMMETRY Symmetry
INVARIANT OneMonitor
INVARIANT AtLeastOnce
CHECK_DEADLOCK FALSE
