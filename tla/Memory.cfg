CONSTANTS
    srv = srv
    cli = cli
    server = server
    tool = tool
    m1 = m1
    m2 = m2
    first = first
    second = second
    open = open
    strict = strict
    None = None
    Threads <- TwoThreads
    Procs <- TwoProcs
    ProcOf <- TwoProcOf
    Ids <- TwoIds
    Contents <- TwoContents
    Policies <- TwoPolicies
    Permissive <- OnlyOpen
    Shadowable <- OnlyOpen
    Mortal <- TwoProcs
    DiskMayFail = TRUE
    MaxGeneration = 2

SPECIFICATION Spec
SYMMETRY MemorySymmetry
CHECK_DEADLOCK FALSE

INVARIANT TypeOK
INVARIANT OneSuccessor
PROPERTY SupersededStaysHidden
PROPERTY AcceptedAsReviewed
PROPERTY WrittenUnderPolicy
PROPERTY ImplementsReview
