CONSTANTS
    Sources = {s1, s2}
    Nonces = {n1}
    None = None
    MaxSessions = 2
    HistoryLimit = 1
    Attempts = 2
    MaxCalls = 2
    MaxFaults = 2
    Wakers = {k1, k2}
    Hook = Hook
    Nobody2 = Nobody2
    V2Sources = {e1}
    V2Sessions = {s1, s2}
    MaxHumans = 2
    MaxWakes = 2
    MaxBrokerFaults = 1
    Launches = {k1, k2}
    NoLaunch = NoLaunch
    LaunchTries = 2
    MaxHostFaults = 2
SPECIFICATION MCSpec
SYMMETRY Symmetry
INVARIANT IntentIsDurable
INVARIANT OneSessionPerSource
INVARIANT SessionIsNewest
INVARIANT BootstrapExclusive
PROPERTY NoBlindResubmit
CHECK_DEADLOCK FALSE
