CONSTANTS
    srv = srv
    cli = cli
    server = server
    tool = tool
    m1 = m1
    m2 = m2
    first = first
    second = second
    open = open
    strict = strict
    None = None
    Threads <- TwoThreads
    Procs <- TwoProcs
    ProcOf <- TwoProcOf
    Ids <- TwoIds
    Contents <- OnlyFirst
    Policies <- OnlyOpen
    Permissive <- OnlyOpen
    Shadowable <- Nobody
    Mortal <- TwoProcs
    DiskMayFail = TRUE
    MaxGeneration = 2

SPECIFICATION Spec
SYMMETRY MemorySymmetry

INVARIANT RemediationIsPossible
