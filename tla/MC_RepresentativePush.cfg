CONSTANTS
    Engines = {p1}
    Page = 1
    Debounce = 1
    RefusalWait = 1
    AckDeadline = 1
    Rewake = 2
    Horizon = 2
    Captures = 1
    Posted = {"direct"}
    None = None
    MaxLog = 2
    MaxFaults = 1
SPECIFICATION FairSpec
INVARIANT NothingForgotten
PROPERTY WokenUntilDelivered
CHECK_DEADLOCK FALSE
