CONSTANTS
    p1 = p1
    p2 = p2
    p3 = p3
    here = here
    there = there
    i1 = i1
    i2 = i2
    None = None
    Procs <- ThreeProcs
    Homes <- TwoHomes
    HomeOf <- HomeOfThree
    Ids <- TwoIds
    Depth <- LocalDeeper
    Mortal <- ThreeProcs
    DiskMayFail = TRUE

SPECIFICATION Spec
SYMMETRY Symmetry

INVARIANT TypeOK
INVARIANT UndoIsExact
PROPERTY LocalTreesStay
PROPERTY OpenersConverge
