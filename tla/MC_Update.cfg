SPECIFICATION Spec
SYMMETRY Symmetry
CONSTANTS
    Targets = {t1, t2}
    Foreign = Foreign
    Absent = Absent
    Broken = Broken
    Texts = {"theirs", "first", "second"}
    Agents = {"claude", "codex", "opencode"}
    MaxRuns = 3
    MaxFaults = 3
    MaxStarts = 2
    MaxTasks = 1
    MaxPublished = 2
INVARIANT GatewayHasWhatIsActive
INVARIANT ForeignKept
INVARIANT UpdatedPairAgrees
CHECK_DEADLOCK FALSE
