\* Commands one after another, never killed: the BlockMap and the Directory
\* stay in step.  Three directory slots and two blocks, so the third
\* copy_to takes the no-space return and deletes leave holes.
CONSTANTS
    p1 = p1
    p2 = p2
    n1 = n1
    n2 = n2
    Junk = Junk
    Procs <- MCProcs
    Names <- MCNames
    Sizes <- MCSizes
    NBlocks = 2
    MaxFiles = 3
    NameBytes = 8
    Overlap = FALSE
SPECIFICATION Spec
INVARIANTS
    TypeOK
    NoSharedBlocks
    NoOrphanBlocks
