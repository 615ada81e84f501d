SPECIFICATION MCSpec
CONSTANTS
    Procs = {p1, p2}
    First = First
    Second = Second
    Old = Old
    New = New
    None = None
    MaxKeys = 3
    MaxRuns = 3
    MaxFaults = 2
    Syncers = {p1, p2}
    Evolved = {v1, v2}
    Missing = Missing
    Template = Template
    MaxSyncs = 3
    MaxEdits = 1
    MaxLosses = 1
SYMMETRY Symmetry
INVARIANT TrustMatchesCredential
INVARIANT CredentialKept
INVARIANT NoCredentialToStranger
INVARIANT AssociationIsBinding
PROPERTY NeverClobbers
CHECK_DEADLOCK FALSE
