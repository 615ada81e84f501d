SPECIFICATION MCSpec
CONSTANTS
    p1 = p1
    p2 = p2
    Runners = {p1, p2}
    Home = home
    w1 = w1
    w2 = w2
    Worktrees = {w1, w2}
    Nil = nil
    MaxRuns = 3
    MaxSeatFaults = 2
    MaxBearers = 3
    l1 = l1
    l2 = l2
    Launchers = {l1, l2}
    LaunchAttempts = 2
    OpenAttempts = 3
SYMMETRY Symmetry
PROPERTY NoSecondSeat
INVARIANT NoGhostDrone
INVARIANT LaunchesWhatWasPicked
INVARIANT PolicyPreserved
INVARIANT RunningSocketKept
CHECK_DEADLOCK FALSE
