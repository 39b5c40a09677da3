CONSTANTS
    srv = srv
    cli = cli
    server = server
    tool = tool
    vaultDefault = vaultDefault
    other = other
    d1 = d1
    d2 = d2
    o1 = o1
    lax = lax
    strict = strict
    None = None
    Absent = Absent
    Torn = Torn
    Portable = Portable
    LocalOnly = LocalOnly
    Threads <- TwoThreads
    Procs <- TwoProcs
    ProcOf <- TwoProcOf
    Policies <- OnlyDefault
    DefaultPolicy = vaultDefault
    Revisions <- DefaultNames
    PolicyOf <- PolicyOfNames
    DefaultRevision = d1
    Rules <- TwoRules
    DefaultRule = lax
    Permissive <- OnlyLax
    Mortal <- TwoProcs
    DiskMayFail = TRUE
    MaxGeneration = 2
    MaxAssignments = 1

SPECIFICATION Spec
SYMMETRY ThreadSymmetry

INVARIANT TypeOK
INVARIANT NoReferenceDangles
PROPERTY PointersMoveAsSeen
PROPERTY RulesLoadUntilShadowed
PROPERTY WrittenUnderActiveDefault
PROPERTY ImplementsLedger
