CONSTANTS
    srv1 = srv1
    srv2 = srv2
    server = server
    claude = claude
    codex = codex
    None = None
    Threads <- ServerThreads
    Procs <- ServerProcs
    ProcOf <- ServerOf
    Mortal <- ServerProcs
    Operators <- ServerThreads
    DiskMayFail = TRUE
    Sessions <- TwoSessions
    FirstModes <- BothModes
    MaxAttempts = 2
    MaxRevision = 2
    MaxGeneration = 3
    MaxPolicy = 1

SPECIFICATION Spec
SYMMETRY ServerSymmetry

INVARIANT TypeOK
INVARIANT StoreIsConsistent
INVARIANT AcknowledgedIsPublished
INVARIANT PolicyIsStable
PROPERTY RevisionsAreImmutable
PROPERTY RetryOnlyAddsItsHead
PROPERTY ImplementsLineage
