CONSTANTS
    srv1 = srv1
    srv2 = srv2
    srv3 = srv3
    cli1 = cli1
    server = server
    tool = tool
    None = None
    Threads <- AllThreads
    Procs <- AllProcs
    ProcOf <- ProcessOf
    MaxOps = 2
    MaxDepth = 2

SPECIFICATION FairSpec

INVARIANT TypeOK
INVARIANT NoLeakedAdmission
PROPERTY WriterPreference
PROPERTY ImplementsLock
PROPERTY EveryAdmissionEnds
