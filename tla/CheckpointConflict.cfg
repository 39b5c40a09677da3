CONSTANTS
    srv1 = srv1
    srv2 = srv2
    server = server
    claude = claude
    codex = codex
    None = None
    Threads <- ServerThreads
    Procs <- ServerProcs
    ProcOf <- ServerOf
    Mortal <- Nobody
    Operators <- Nobody
    DiskMayFail = FALSE
    Sessions <- TwoSessions
    FirstModes <- ParallelMode
    MaxAttempts = 3
    MaxRevision = 3
    MaxGeneration = 4
    MaxPolicy = 0

SPECIFICATION Spec
SYMMETRY ServerSymmetry

INVARIANT RetryWithRegistryHeadIsAdmitted
