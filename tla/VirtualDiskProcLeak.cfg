\* Two invocations on one image may overlap: a delete between the Directory
\* and BlockMap writes of a copy_to leaves a block marked that no entry claims.
CONSTANTS
    p1 = p1
    p2 = p2
    n1 = n1
    n2 = n2
    Junk = Junk
    Procs <- MCProcs
    Names <- MCNames
    Sizes <- MCSizes
    NBlocks = 2
    MaxFiles = 2
    NameBytes = 8
    Overlap = TRUE
SPECIFICATION Spec
INVARIANT
    NoOrphanBlocks
