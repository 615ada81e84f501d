CONSTANTS
    Entries = {e1, e2}
    Nonces = {n0}
    DeliveredWakeKeyCap = 1
    MaxCalls = 2
    MaxFaults = 1
SPECIFICATION FairSpec
PROPERTY UnreadIsRead
PROPERTY RecoversToHealthy
CHECK_DEADLOCK FALSE
