CONSTANTS
    client = client
    main = main
    side = side
    lax = lax
    strict = strict
    madi = madi
    work = work
    sess = sess
    None = None
    Absent = Absent
    Torn = Torn
    Detached = Detached
    Rules <- TwoRules
    CeilingOf <- Ceilings
    Clients <- OneClient
    Artifacts <- Files
    Contents <- AllContents
    FirstTree <- FirstFiles
    Edits <- TwoFileEdits
    Branches <- TwoBranches
    MaxCalls = 2
    MaxEdits = 2

SPECIFICATION Spec
SYMMETRY BranchSymmetry

INVARIANT TypeOK
PROPERTY CommitsOnlyAdd
PROPERTY PushesOnlyChecked
INVARIANT UndisturbedCalls
