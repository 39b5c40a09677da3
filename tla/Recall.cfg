CONSTANTS
    first = first
    second = second
    lax = lax
    strict = strict
    madi = madi
    notes = notes
    work = work
    mine = mine
    sess = sess
    old = old
    new = new
    None = None
    Absent = Absent
    Torn = Torn
    Rules <- TwoRules
    CeilingOf <- Ceilings
    Clients <- TwoClients
    Ops <- Tasks
    Artifacts <- Files
    Contents <- AllContents
    FirstTree <- FirstFiles
    Edits <- SomeEdits
    Scan <- ScanOrder
    Rankings <- TwoRankings
    Limits <- JustTwo
    Views <- SomeViews
    MaxCalls = 1
    MaxEdits = 2

SPECIFICATION Spec

INVARIANT TypeOK
INVARIANT NothingStaleIsShown
INVARIANT UndisturbedCalls
INVARIANT CachedViewsAreCurrent
PROPERTY EveryStepComesCloser
