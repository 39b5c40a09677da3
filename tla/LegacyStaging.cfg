CONSTANTS
    first = first
    second = second
    page = page
    note = note
    None = None
    Stagers <- TwoStagers
    PageCount = 2
    TablesOf <- SomeTables
    Files <- TwoFiles
    FirstWiki <- OnePage
    MaxWrites = 1
    MaxEdits = 1
    MaxCalls = 1

SPECIFICATION Spec
SYMMETRY StagerSymmetry
CHECK_DEADLOCK FALSE

INVARIANT TypeOK
INVARIANT BundlesHangTogether
INVARIANT StagingIsAllOrNothing
