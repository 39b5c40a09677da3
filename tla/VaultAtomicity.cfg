CONSTANTS
    p1 = p1
    p2 = p2
    p3 = p3
    here = here
    there = there
    i1 = i1
    i2 = i2
    None = None
    Procs <- ThreeProcs
    Homes <- TwoHomes
    HomeOf <- HomeOfThree
    Ids <- TwoIds
    Depth <- LocalDeeper
    Mortal <- ThreeProcs
    DiskMayFail = FALSE

SPECIFICATION Spec
SYMMETRY Symmetry

INVARIANT InitializationIsAtomic
